---- MODULE Spec2Model ----
(***************************************************************************)
(* A model of KaMinPar's concurrent primitives, gain caches and JET        *)
(* refiner.  Each component is a group of variables with its own initial   *)
(* predicate and next-state relation; a specification runs one component   *)
(* and keeps the variables of the others at their idle values.             *)
(***************************************************************************)
EXTENDS Integers, Sequences, FiniteSets, TLC

VARIABLES
  \* ConcurrentCircularVector (concurrent_circular_vector.h)
  ccv_size,        \* the constructor argument `size`
  ccv_ntasks,      \* number of parallel tasks that synchronize on the vector
  ccv_kassert,     \* whether KASSERT is compiled in (build configuration)
  _counter,        \* ConcurrentCircularVector::_counter
  _buffer,         \* ConcurrentCircularVector::_buffer, positions 0..size
  ccv_pc,          \* per ticket: position of its fetch_and_update call
  ccv_delta,       \* per ticket: the `delta` passed to the call
  ccv_value,       \* per ticket: the call's local `value` (its return value)
  ccv_aborted,     \* a failed KASSERT aborted the program
  ccv_maxflight,   \* history: largest number of tickets in flight so far
  \* DenseGainCache / DeltaGainCache (gain_cache.h) and their partitioned graph
  gc_graph,           \* the graph of p_graph: node -> sequence of <<v, weight>>
  gc_block,           \* p_graph.block(u)
  _gain_cache,        \* DenseGainCache::_gain_cache, indexed by index(u, b)
  _weighted_degrees,  \* DenseGainCache::_weighted_degrees
  gc_ready,           \* initialize() has run
  gc_moving,          \* per node: the running move() call, <<from, to, edge, op>>
  gc_nmoves,          \* number of move() calls made so far (dense and delta)
  gc_block0,          \* history: the partition initialize() saw
  gc_last,            \* history: the last dense move, <<node, from, to>>
  _gain_cache_delta,  \* DeltaGainCache::_gain_cache_delta, key -> delta
  gc_phase,           \* "delta" once clear() ran and no dense move followed
  gc_copy,            \* history: copy of the base cache under the delta's moves
  gc_base0,           \* history: the base cache when the delta phase began
  gc_ndelta,          \* history: delta moves made in this delta phase
  gc_overlap,         \* history: two dense move() calls ran at the same time
  \* JetRefiner (jet_refiner.cc) and the distributed graph of every PE
  jet_graph,             \* the global graph: node -> sequence of <<v, weight>>
  jet_dist,              \* node_distribution: PE p owns dist[p]..dist[p + 1] - 1
  _ghost_to_global, \* per PE: graph::Builder::_ghost_to_global
  jet_node_weight,       \* node weight by global node
  jet_block,             \* per PE: _p_graph.block(u), owned and ghost nodes
  jet_block_weight,      \* per PE: _p_graph.block_weight(b)
  _gains_and_targets,    \* per PE: JetRefiner::_gains_and_targets, <<gain, target>>
  _locked,               \* per PE: JetRefiner::_locked
  _block_weight_deltas,  \* per PE: JetRefiner::_block_weight_deltas
  _penalty_factor,       \* per PE: JetRefiner::_penalty_factor, <<num, den>>
  jet_pc,                \* per PE: the phase of refine() it runs next
  jet_move,              \* per PE and owned node: its iteration of the loop of
                         \* move_locked_nodes, <<position, from>>
  jet_iter,              \* cur_iteration of refine()
  \* Coarsener (coarsener.cc) of one PE
  _input_graph,                 \* Coarsener::_input_graph
  _graph_hierarchy,             \* Coarsener::_graph_hierarchy
  _local_mapping_hierarchy,     \* Coarsener::_local_mapping_hierarchy
  _global_mapping_hierarchy,    \* Coarsener::_global_mapping_hierarchy
  _local_clustering_converged,  \* Coarsener::_local_clustering_converged
  co_max_global_levels,         \* coarsening.max_global_clustering_levels
  co_max_local_levels,          \* coarsening.max_local_clustering_levels
  co_pgraph,                    \* the caller's partition of the coarsest graph
  co_ngraphs,                   \* coarse graphs pushed so far
  co_npops,                     \* history: uncoarsen_once calls so far
  co_last,                       \* history: the last call and the state before it
  \* JetRefiner::refine (jet_refiner.cc) and the snapshooter
  _jet_ctx,        \* _ctx.refinement.jet: the limits and the threshold, and
                   \* the maximum block weight of _p_ctx
  initial_cut,     \* refine: initial_cut
  best_cut,        \* refine: best_cut
  cur_fruitless_iteration, \* refine: cur_fruitless_iteration
  _snapshooter,    \* per PE: the partition kept by _snapshooter and its cut
  jet_return,      \* what refine() returned, "none" while it has not
  ref_hist,        \* history: the cut before the rollback, balancer moves
  \* LabelPropagationRefiner (parallel_label_propagation_refiner.h)
  lp_block_weight,     \* _p_graph->block_weight(b)
  lp_max_block_weight, \* _p_ctx->max_block_weight(b)
  lp_state,            \* the ClusterSelectionState of the node being handled
  lp_tried,            \* the blocks of the rating map offered so far
  lp_accepted,          \* what accept_cluster returned last, "none" before
  \* ConcurrentFastResetArray (concurrent_fast_reset_array.h)
  _data,           \* _data
  _used_entries,   \* _used_entries
  fra_last,         \* history: the last member function called, the state before
  \* CompressedGraph (compressed_graph.cc)
  cg_degree,            \* degree(u) of every stored node, isolated nodes last
  _node_weights,        \* the stored node weights, <<>> when unweighted
  cg_n,                 \* n(): the size _nodes is restricted to, minus 1
  cg_weights_size,      \* the size _node_weights is restricted to
  _buckets,             \* degree-bucket prefix sums
  _number_of_buckets,
  _total_node_weight,
  _max_node_weight,
  cg_pc,                \* "constructed", "removed" or "integrated"
  cg_last,               \* history: the last removal, the state before it
  \* MoveSetBuilder (dkaminpar/refinement/balancer/move_sets.cc)
  msb_graph,            \* _p_graph, _p_ctx and the max_move_set_weight passed in
  _node_to_move_set,
  _move_sets,
  _move_set_indices,
  _frontier,            \* the ids in the heap and their keys
  _cur_pos,
  _cur_move_set,
  _cur_conns,           \* the blocks in the heap and their keys
  _cur_block,
  _cur_weight,
  _best_prefix_pos,
  _best_prefix_conn,
  msb_u,                \* build: the node the loop is at
  msb_pc,               \* "build", "grow", "finalized", "aborted", "undefined"
  msb_kassert,          \* the assertions of the builder that did not hold
  msb_log,               \* history: the sets finished, as grow_move_set left them
  \* LabelPropagationRefiner::refine, the loop over the iterations
  lpr_num_iterations,   \* _r_ctx.lp.num_iterations
  lpr_iteration,        \* iteration
  lpr_nodes_left,       \* nodes randomized_iteration() has yet to go through
  lpr_num_moved_nodes,  \* nodes moved by the running randomized_iteration()
  lpr_cut_change,       \* edge cut now minus edge cut when refine() was called
  lpr_return,            \* what refine() returned, "none" while it runs
  \* graph::Builder (distributed_graph_builder.h), one PE building its graph
  _node_distribution,   \* _node_distribution, positions 0..size as 1..size+1
  bld_rank,             \* the rank passed to initialize()
  _nodes,               \* _nodes
  bld_node_weights,     \* _node_weights of the builder
  _edges,               \* _edges
  _ghost_owner,         \* _ghost_owner
  bld_ghost_to_global,  \* _ghost_to_global of the builder
  _global_to_ghost,     \* _global_to_ghost, a map
  bld_targets,           \* history: the global_v of the create_edge calls so far
  \* BasePoolAllocator (parallel_label_propagation_refiner.h), static state
  initialized,          \* std::atomic_size_t initialized
  pool_buffer,          \* pool_buffer: 0 for nullptr, else the number of the allocation
  pool,                 \* pool: 0 for nullptr, else the number of the fixed_pool
  pool_pc,              \* per thread: where it is in its constructor or init call
  pool_call,            \* per thread: the call it runs, [kind, n]
  pool_ncalls,          \* calls started so far
  pool_allocs,          \* history: calls of AS().alloc that returned a buffer
  pool_news,            \* history: fixed_pool objects constructed
  pool_ctor_returns,    \* history: constructors that returned
  pool_bad_return,      \* history: a constructor returned with pool unset or initialized < 2
  pool_waited,           \* history: a constructor reached its wait loop with initialized < 2
  \* mpi::sequentially (mpi_helper.h), the processes of one communicator
  seq_world_size,       \* number of processes in MPI_COMM_WORLD
  seq_comm,             \* comm: for each of its ranks 0, 1, ... the rank in MPI_COMM_WORLD
  seq_p,                \* per rank in comm: the loop variable p
  seq_pc,               \* per rank in comm: "loop", "lambda", "barrier", "done"
  seq_arrived,          \* per rank in comm: calls of MPI_Barrier(comm) entered
  seq_runs,             \* history, per rank in comm: calls of lambda started
  seq_finished,          \* history, per rank in comm: calls of lambda returned
  \* FastResetArray (fast_reset_array.h in concurrent_fast_reset_array.h)
  fa_data,              \* _data of the FastResetArray
  fa_used_entries,      \* _used_entries of the FastResetArray
  fa_query              \* the last exists(pos) since the array changed: [pos, ret], or <<>>

ccvVars == <<ccv_size, ccv_ntasks, ccv_kassert, _counter, _buffer, ccv_pc,
             ccv_delta, ccv_value, ccv_aborted, ccv_maxflight>>

gcVars == <<gc_graph, gc_block, _gain_cache, _weighted_degrees, gc_ready,
            gc_moving, gc_nmoves, gc_block0, gc_last, _gain_cache_delta,
            gc_phase, gc_copy, gc_base0, gc_ndelta, gc_overlap>>

jetVars == <<jet_graph, jet_dist, _ghost_to_global, jet_node_weight, jet_block,
             jet_block_weight,
             _gains_and_targets, _locked, _block_weight_deltas,
             _penalty_factor, jet_pc, jet_move, jet_iter>>

\* The graph a refiner is constructed for.
jetGraph == <<jet_graph, jet_dist, _ghost_to_global, jet_node_weight>>

coVars == <<_input_graph, _graph_hierarchy, _local_mapping_hierarchy,
            _global_mapping_hierarchy, _local_clustering_converged,
            co_max_global_levels, co_max_local_levels, co_pgraph, co_ngraphs,
            co_npops, co_last>>

refVars == <<_jet_ctx, initial_cut, best_cut, cur_fruitless_iteration,
             _snapshooter, jet_return, ref_hist>>

lpVars == <<lp_block_weight, lp_max_block_weight, lp_state, lp_tried,
            lp_accepted>>

fraVars == <<_data, _used_entries, fra_last>>

cgVars == <<cg_degree, _node_weights, cg_n, cg_weights_size, _buckets,
            _number_of_buckets, _total_node_weight, _max_node_weight, cg_pc,
            cg_last>>

msbVars == <<msb_graph, _node_to_move_set, _move_sets, _move_set_indices,
             _frontier, _cur_pos, _cur_move_set, _cur_conns, _cur_block,
             _cur_weight, _best_prefix_pos, _best_prefix_conn, msb_u, msb_pc,
             msb_kassert, msb_log>>

lprVars == <<lpr_num_iterations, lpr_iteration, lpr_nodes_left,
             lpr_num_moved_nodes, lpr_cut_change, lpr_return>>

bldVars == <<_node_distribution, bld_rank, _nodes, bld_node_weights, _edges, _ghost_owner, bld_ghost_to_global, _global_to_ghost, bld_targets>>

poolVars == <<initialized, pool_buffer, pool, pool_pc, pool_call, pool_ncalls, pool_allocs, pool_news, pool_ctor_returns, pool_bad_return, pool_waited>>

seqVars == <<seq_world_size, seq_comm, seq_p, seq_pc, seq_arrived, seq_runs, seq_finished>>

faVars == <<fa_data, fa_used_entries, fa_query>>

vars == <<ccvVars, gcVars, jetVars, coVars, refVars, lpVars, fraVars, cgVars, msbVars, lprVars, bldVars, poolVars, seqVars, faVars>>

\* The variables of the other components.
notCcvVars == <<gcVars, jetVars, coVars, refVars, lpVars, fraVars, cgVars, msbVars, lprVars, bldVars, poolVars, seqVars, faVars>>
notGcVars == <<ccvVars, jetVars, coVars, refVars, lpVars, fraVars, cgVars, msbVars, lprVars, bldVars, poolVars, seqVars, faVars>>
notJetVars == <<ccvVars, gcVars, coVars, refVars, lpVars, fraVars, cgVars, msbVars, lprVars, bldVars, poolVars, seqVars, faVars>>
notCoVars == <<ccvVars, gcVars, jetVars, refVars, lpVars, fraVars, cgVars, msbVars, lprVars, bldVars, poolVars, seqVars, faVars>>
notRefVars == <<ccvVars, gcVars, coVars, lpVars, fraVars, cgVars, msbVars, lprVars, bldVars, poolVars, seqVars, faVars>>
notLpVars == <<ccvVars, gcVars, jetVars, coVars, refVars, fraVars, cgVars, msbVars, lprVars, bldVars, poolVars, seqVars, faVars>>
notFraVars == <<ccvVars, gcVars, jetVars, coVars, refVars, lpVars, cgVars, msbVars, lprVars, bldVars, poolVars, seqVars, faVars>>
notCgVars == <<ccvVars, gcVars, jetVars, coVars, refVars, lpVars, fraVars, msbVars, lprVars, bldVars, poolVars, seqVars, faVars>>
notMsbVars == <<ccvVars, gcVars, jetVars, coVars, refVars, lpVars, fraVars, cgVars, lprVars, bldVars, poolVars, seqVars, faVars>>
notLprVars == <<ccvVars, gcVars, jetVars, coVars, refVars, lpVars, fraVars, cgVars, msbVars, bldVars, poolVars, seqVars, faVars>>
notLpLprVars == <<ccvVars, gcVars, jetVars, coVars, refVars, fraVars, cgVars, msbVars, bldVars, poolVars, seqVars, faVars>>
notBldVars == <<ccvVars, gcVars, jetVars, coVars, refVars, lpVars, fraVars, cgVars, msbVars, lprVars, poolVars, seqVars, faVars>>
notPoolVars == <<ccvVars, gcVars, jetVars, coVars, refVars, lpVars, fraVars, cgVars, msbVars, lprVars, bldVars, seqVars, faVars>>
notSeqVars == <<ccvVars, gcVars, jetVars, coVars, refVars, lpVars, fraVars, cgVars, msbVars, lprVars, bldVars, poolVars, faVars>>
notFaVars == <<ccvVars, gcVars, jetVars, coVars, refVars, lpVars, fraVars, cgVars, msbVars, lprVars, bldVars, poolVars, seqVars>>

\* No FastResetArray exists.
FA_Idle == fa_data = <<>> /\ fa_used_entries = <<>> /\ fa_query = <<>>


\* No call of sequentially() is under way.
SEQ_Idle ==
  /\ seq_world_size = 0 /\ seq_comm = <<>> /\ seq_p = <<>> /\ seq_pc = <<>>
  /\ seq_arrived = <<>> /\ seq_runs = <<>> /\ seq_finished = <<>>


\* No pool allocator is in use.
POOL_Idle ==
  /\ initialized = 0 /\ pool_buffer = 0 /\ pool = 0
  /\ pool_pc = <<>> /\ pool_call = <<>> /\ pool_ncalls = 0
  /\ pool_allocs = 0 /\ pool_news = 0 /\ pool_ctor_returns = 0
  /\ pool_bad_return = FALSE /\ pool_waited = FALSE


\* No graph builder exists.
BLD_Idle ==
  /\ _node_distribution = <<>> /\ bld_rank = 0 /\ _nodes = <<>>
  /\ bld_node_weights = <<>> /\ _edges = <<>> /\ _ghost_owner = <<>>
  /\ bld_ghost_to_global = <<>> /\ _global_to_ghost = <<>>
  /\ bld_targets = <<>>


\* No call of refine() is under way.
LPR_Idle ==
  /\ lpr_num_iterations = 0 /\ lpr_iteration = 0 /\ lpr_nodes_left = 0
  /\ lpr_num_moved_nodes = 0 /\ lpr_cut_change = 0 /\ lpr_return = "none"


\* No move set builder exists.
MSB_Idle ==
  /\ msb_graph = <<>> /\ _node_to_move_set = <<>> /\ _move_sets = <<>>
  /\ _move_set_indices = <<>> /\ _frontier = <<>> /\ _cur_pos = 0
  /\ _cur_move_set = 0 /\ _cur_conns = <<>> /\ _cur_block = 0
  /\ _cur_weight = 0 /\ _best_prefix_pos = 0 /\ _best_prefix_conn = 0
  /\ msb_u = 0 /\ msb_pc = "none" /\ msb_kassert = {} /\ msb_log = <<>>


\* No compressed graph exists.
CG_Idle ==
  /\ cg_degree = <<>> /\ _node_weights = <<>> /\ cg_n = 0
  /\ cg_weights_size = 0 /\ _buckets = <<>> /\ _number_of_buckets = 0
  /\ _total_node_weight = 0 /\ _max_node_weight = 0
  /\ cg_pc = "none" /\ cg_last = [isolated_nodes |-> 0]


\* No array is in use.
FRA_Idle ==
  /\ _data = <<>>
  /\ _used_entries = <<>>
  /\ fra_last = [op |-> "none"]


\* No label propagation refiner is in use.
LP_Idle ==
  /\ lp_block_weight = <<>>
  /\ lp_max_block_weight = <<>>
  /\ lp_state = <<>>
  /\ lp_tried = {}
  /\ lp_accepted = "none"

\* refine() is not running.
REF_Idle ==
  /\ _jet_ctx = <<>>
  /\ initial_cut = 0
  /\ best_cut = 0
  /\ cur_fruitless_iteration = 0
  /\ _snapshooter = <<>>
  /\ jet_return = "none"
  /\ ref_hist = <<>>

\* No coarsener is in use.
CO_Idle ==
  /\ _input_graph = <<>>
  /\ _graph_hierarchy = <<>>
  /\ _local_mapping_hierarchy = <<>>
  /\ _global_mapping_hierarchy = <<>>
  /\ _local_clustering_converged = FALSE
  /\ co_max_global_levels = 0
  /\ co_max_local_levels = 0
  /\ co_pgraph = <<>>
  /\ co_ngraphs = 0
  /\ co_npops = 0
  /\ co_last = <<>>

(***************************************************************************)
(* Bounds of the model.                                                    *)
(***************************************************************************)
MaxSize == 2        \* largest constructor argument `size`
MaxTickets == 4     \* tickets handed out by next() in one run
MaxDelta == 1       \* deltas are drawn from 0..MaxDelta
ValueBits == 2      \* width of the unsigned Value type
NumBlocks == 2      \* k, the number of blocks of the partition
MaxMoves == 2       \* gain cache move() calls in one run
MaxPasses == 2      \* num_iterations of the JET refiner
MaxLevels == 2      \* largest setting of the clustering level limits
MaxGraphs == 2      \* coarse graphs pushed by a coarsener in one run

ValueMod == 2 ^ ValueBits

RECURSIVE SumTo(_, _)
\* f[0] + ... + f[n - 1]
SumTo(f, n) == IF n = 0 THEN 0 ELSE SumTo(f, n - 1) + f[n - 1]

(***************************************************************************)
(* ConcurrentCircularVector                                                *)
(***************************************************************************)
\* static constexpr Value kLock = std::numeric_limits<Value>::max()
kLock == ValueMod - 1

\* const Size pos = entry % _buffer.size()
CCV_Pos(entry, size) == entry % (size + 1)

\* (variant: the previous slot is taken to be the entry's own slot)
CCV_PrevPosSame(entry, size) == CCV_Pos(entry, size)

\* const Size prev_pos = (pos == 0) ? (_buffer.size() - 1) : (pos - 1)
CCV_PrevPos(entry, size) ==
  IF CCV_Pos(entry, size) = 0 THEN (size + 1) - 1 ELSE CCV_Pos(entry, size) - 1

\* (variant: std::fill covers the whole buffer, the last slot included)
CCV_LockAll(size) == [i \in 0..size |-> kLock]

\* _buffer(size + 1) value-initialised, then fill [begin, end - 1) with kLock
CCV_Construct(size) == [i \in 0..size |-> IF i < size THEN kLock ELSE 0]

\* (variant: the delta is dropped)
CCV_KeepValue(value, delta) == value

\* value + delta in the unsigned Value type
CCV_NewValue(value, delta) == (value + delta) % ValueMod

CCV_Tickets == 0..(MaxTickets - 1)

\* A call is in flight from next() until fetch_and_update returns.  Each task
\* runs one call at a time, so a call is identified by its ticket.
CCV_InFlight ==
  Cardinality({e \in CCV_Tickets :
     ccv_pc[e] \in {"load", "store_prev", "store_pos", "store_prev_late"}})

\* The state after construction, before any task has called next().
CCV_Init ==
  /\ ccv_size \in 1..MaxSize
  /\ _counter = 0
  /\ _buffer = CCV_Construct(ccv_size)
  /\ ccv_pc = [e \in CCV_Tickets |-> "none"]
  /\ ccv_delta = [e \in CCV_Tickets |-> 0]
  /\ ccv_value = [e \in CCV_Tickets |-> 0]
  /\ ccv_aborted = FALSE
  /\ ccv_maxflight = 0

\* The vector is not in use.
CCV_Idle ==
  /\ ccv_size = 1
  /\ ccv_ntasks = 0
  /\ ccv_kassert = FALSE
  /\ _counter = 0
  /\ _buffer = CCV_Construct(1)
  /\ ccv_pc = [e \in CCV_Tickets |-> "none"]
  /\ ccv_delta = [e \in CCV_Tickets |-> 0]
  /\ ccv_value = [e \in CCV_Tickets |-> 0]
  /\ ccv_aborted = FALSE
  /\ ccv_maxflight = 0

\* next(): __atomic_fetch_add(&_counter, 1), by a task that is not inside a
\* call; the task then enters fetch_and_update(entry, delta) with the delta d
\* of its chunk.  With `fits`, the caller keeps the running total below kLock.
CCV_Next(d, fits) ==
  /\ ~ccv_aborted
  /\ CCV_InFlight < ccv_ntasks
  /\ _counter < MaxTickets
  /\ fits => SumTo(ccv_delta, _counter) + d < kLock
  /\ _counter' = _counter + 1
  /\ ccv_delta' = [ccv_delta EXCEPT ![_counter] = d]
  /\ ccv_pc' = [ccv_pc EXCEPT ![_counter] = "load"]
  /\ ccv_maxflight' = IF CCV_InFlight + 1 > ccv_maxflight
                      THEN CCV_InFlight + 1 ELSE ccv_maxflight
  /\ UNCHANGED <<ccv_size, ccv_ntasks, ccv_kassert, _buffer, ccv_value,
                 ccv_aborted>>

\* do { value = load(_buffer[prev_pos]) } while (value == kLock);
\* KASSERT((value + delta) != kLock)
CCV_Load(entry) ==
  /\ ~ccv_aborted
  /\ ccv_pc[entry] = "load"
  /\ LET value == _buffer[CCV_PrevPos(entry, ccv_size)] IN
       IF value = kLock
       THEN UNCHANGED <<ccv_value, ccv_pc, ccv_aborted>>
       ELSE /\ ccv_value' = [ccv_value EXCEPT ![entry] = value]
            /\ IF ccv_kassert /\ CCV_NewValue(value, ccv_delta[entry]) = kLock
               THEN ccv_aborted' = TRUE /\ UNCHANGED ccv_pc
               ELSE /\ ccv_pc' = [ccv_pc EXCEPT ![entry] = "store_prev"]
                    /\ UNCHANGED ccv_aborted
  /\ UNCHANGED <<ccv_size, ccv_ntasks, ccv_kassert, _counter, _buffer,
                 ccv_delta, ccv_maxflight>>

\* __atomic_store_n(&_buffer[prev_pos], kLock)
CCV_StorePrev(entry) ==
  /\ ~ccv_aborted
  /\ ccv_pc[entry] = "store_prev"
  /\ _buffer' = [_buffer EXCEPT ![CCV_PrevPos(entry, ccv_size)] = kLock]
  /\ ccv_pc' = [ccv_pc EXCEPT ![entry] = "store_pos"]
  /\ UNCHANGED <<ccv_size, ccv_ntasks, ccv_kassert, _counter, ccv_delta,
                 ccv_value, ccv_aborted, ccv_maxflight>>

\* __atomic_store_n(&_buffer[pos], value + delta); return value
CCV_StorePos(entry) ==
  /\ ~ccv_aborted
  /\ ccv_pc[entry] = "store_pos"
  /\ _buffer' = [_buffer EXCEPT ![CCV_Pos(entry, ccv_size)] =
                    CCV_NewValue(ccv_value[entry], ccv_delta[entry])]
  /\ ccv_pc' = [ccv_pc EXCEPT ![entry] = "returned"]
  /\ UNCHANGED <<ccv_size, ccv_ntasks, ccv_kassert, _counter, ccv_delta,
                 ccv_value, ccv_aborted, ccv_maxflight>>

\* The two stores are __ATOMIC_RELAXED and go to different slots, so nothing
\* orders them for another thread: here the store to _buffer[pos] takes
\* effect first ...
CCV_StorePosFirst(entry) ==
  /\ ~ccv_aborted
  /\ ccv_pc[entry] = "store_prev"
  /\ _buffer' = [_buffer EXCEPT ![CCV_Pos(entry, ccv_size)] =
                    CCV_NewValue(ccv_value[entry], ccv_delta[entry])]
  /\ ccv_pc' = [ccv_pc EXCEPT ![entry] = "store_prev_late"]
  /\ UNCHANGED <<ccv_size, ccv_ntasks, ccv_kassert, _counter, ccv_delta,
                 ccv_value, ccv_aborted, ccv_maxflight>>

\* ... and the store of kLock to _buffer[prev_pos] after it.
CCV_StorePrevLate(entry) ==
  /\ ~ccv_aborted
  /\ ccv_pc[entry] = "store_prev_late"
  /\ _buffer' = [_buffer EXCEPT ![CCV_PrevPos(entry, ccv_size)] = kLock]
  /\ ccv_pc' = [ccv_pc EXCEPT ![entry] = "returned"]
  /\ UNCHANGED <<ccv_size, ccv_ntasks, ccv_kassert, _counter, ccv_delta,
                 ccv_value, ccv_aborted, ccv_maxflight>>

\* One step of the fetch_and_update call for ticket `entry`.
CCV_FetchAndUpdate(entry) ==
  (CCV_Load(entry) \/ CCV_StorePrev(entry) \/ CCV_StorePos(entry))
    /\ UNCHANGED notCcvVars

(***************************************************************************)
(* DenseGainCache, OnTheFlyGainCache, DeltaGainCache                       *)
(***************************************************************************)
\* Nodes of the partitioned graph and blocks of the partition; the cache is
\* constructed for the same n and k.
GC_Nodes == 0..3
GC_Blocks == 0..(NumBlocks - 1)

\* Graphs as adjacency arrays: p_graph.neighbors(u) is the sequence of
\* <<v, edge weight>> in edge order.  The unit-weight path 0-1-2-3 ...
GC_Path ==
  (0 :> <<<<1, 1>>>>) @@ (1 :> <<<<0, 1>>, <<2, 1>>>>) @@
  (2 :> <<<<1, 1>>, <<3, 1>>>>) @@ (3 :> <<<<2, 1>>>>)

\* ... and a weighted triangle 0-1-2 with the pendant node 3.
GC_Kite ==
  (0 :> <<<<1, 2>>, <<2, 3>>>>) @@ (1 :> <<<<0, 2>>, <<2, 1>>>>) @@
  (2 :> <<<<0, 3>>, <<1, 1>>, <<3, 1>>>>) @@ (3 :> <<<<2, 1>>>>)

GC_Graphs == {GC_Path, GC_Kite}

\* The partitions a run starts from; moves lead to the others.
GC_StartPartitions == {<<0, 1, 1, 0>>, <<0, 0, 1, 1>>}

GC_Degree(g, u) == Len(g[u])

\* index(node, b) = node * _k + b
GC_Index(node, b) == node * NumBlocks + b

GC_Slots == 0..(Cardinality(GC_Nodes) * NumBlocks - 1)

\* (variant: reset() is skipped)
GC_NoReset(cache) == cache

\* reset(): _gain_cache[i] = 0 for every i
GC_Reset(cache) == [i \in DOMAIN cache |-> 0]

RECURSIVE GC_RecomputeRow(_, _, _, _, _)
\* recompute_node(u), edges 1..i: _gain_cache[index(u, block_v)] += weight
GC_RecomputeRow(cache, g, block, u, i) ==
  IF i = 0 THEN cache
  ELSE LET c == GC_RecomputeRow(cache, g, block, u, i - 1)
           v == g[u][i][1]
           w == g[u][i][2]
       IN [c EXCEPT ![GC_Index(u, block[v])] = @ + w]

RECURSIVE GC_RecomputeNodes(_, _, _, _)
\* recompute_all(): recompute_node(u) for the nodes 0..n-1
GC_RecomputeNodes(cache, g, block, n) ==
  IF n = 0 THEN cache
  ELSE GC_RecomputeRow(GC_RecomputeNodes(cache, g, block, n - 1),
                       g, block, n - 1, GC_Degree(g, n - 1))

RECURSIVE GC_SumWeights(_, _, _)
\* recompute_node(u): _weighted_degrees[u] = 0, then += weight per edge
GC_SumWeights(g, u, i) ==
  IF i = 0 THEN 0 ELSE GC_SumWeights(g, u, i - 1) + g[u][i][2]

\* weighted_degree_to(node, block)
GC_WeightedDegreeTo(cache, node, block) == cache[GC_Index(node, block)]

\* (variant: the connection to the source block is not subtracted)
GC_GainToOnly(cache, node, block_from, block_to) ==
  GC_WeightedDegreeTo(cache, node, block_to)

\* DenseGainCache::gain(node, block_from, block_to)
GC_Gain(cache, node, block_from, block_to) ==
  GC_WeightedDegreeTo(cache, node, block_to) -
    GC_WeightedDegreeTo(cache, node, block_from)

RECURSIVE GC_MoveEdges(_, _, _, _, _, _)
\* DenseGainCache::move(node, block_from, block_to) run to completion on
\* `cache`: for the edges 1..i, sub from (v, block_from), add to (v, block_to)
GC_MoveEdges(cache, g, node, block_from, block_to, i) ==
  IF i = 0 THEN cache
  ELSE LET c == GC_MoveEdges(cache, g, node, block_from, block_to, i - 1)
           v == g[node][i][1]
           w == g[node][i][2]
           d == [c EXCEPT ![GC_Index(v, block_from)] = @ - w]
       IN [d EXCEPT ![GC_Index(v, block_to)] = @ + w]

RECURSIVE GC_Conn(_, _, _, _, _)
\* check_cached_gain_for_node(u): actual_external_degrees[b] over the edges
\* 1..i (also OnTheFlyGainCache::conn_impl)
GC_Conn(g, block, u, b, i) ==
  IF i = 0 THEN 0
  ELSE GC_Conn(g, block, u, b, i - 1) +
       (IF block[g[u][i][1]] = b THEN g[u][i][2] ELSE 0)

\* check_cached_gain_for_node(p_graph, u)
GC_CheckCachedGainForNode(cache, wdeg, g, block, u) ==
  /\ \A b \in GC_Blocks :
       GC_Conn(g, block, u, b, GC_Degree(g, u)) = GC_WeightedDegreeTo(cache, u, b)
  /\ GC_SumWeights(g, u, GC_Degree(g, u)) = wdeg[u]

\* DenseGainCache::validate(p_graph)
GC_Validate(cache, wdeg, g, block) ==
  \A u \in GC_Nodes : GC_CheckCachedGainForNode(cache, wdeg, g, block, u)

RECURSIVE GC_OnTheFlyScan(_, _, _, _, _, _)
\* OnTheFlyGainCache::gain_impl over the edges 1..i: <<conn_from, conn_to>>
GC_OnTheFlyScan(g, block, node, from, to, i) ==
  IF i = 0 THEN <<0, 0>>
  ELSE LET acc == GC_OnTheFlyScan(g, block, node, from, to, i - 1)
           v == g[node][i][1]
           w == g[node][i][2]
       IN IF block[v] = from THEN <<acc[1] + w, acc[2]>>
          ELSE IF block[v] = to THEN <<acc[1], acc[2] + w>>
          ELSE acc

\* OnTheFlyGainCache::gain(node, from, to) = conn_to - conn_from
GC_OnTheFlyGain(g, block, node, from, to) ==
  LET acc == GC_OnTheFlyScan(g, block, node, from, to, GC_Degree(g, node))
  IN acc[2] - acc[1]

\* _gain_cache_delta[key], with the entry default-inserted as 0
GC_DeltaAdd(delta, key, w) ==
  IF key \in DOMAIN delta
  THEN [delta EXCEPT ![key] = @ + w]
  ELSE (key :> w) @@ delta

RECURSIVE GC_DeltaMoveEdges(_, _, _, _, _, _)
\* DeltaGainCache::move(u, block_from, block_to) over the edges 1..i
GC_DeltaMoveEdges(delta, g, u, block_from, block_to, i) ==
  IF i = 0 THEN delta
  ELSE LET d == GC_DeltaMoveEdges(delta, g, u, block_from, block_to, i - 1)
           v == g[u][i][1]
           w == g[u][i][2]
       IN GC_DeltaAdd(GC_DeltaAdd(d, GC_Index(v, block_from), 0 - w),
                      GC_Index(v, block_to), w)

\* it != _gain_cache_delta.end() ? it->second : 0
GC_DeltaFind(delta, key) == IF key \in DOMAIN delta THEN delta[key] ELSE 0

\* (variant: the delta of the source block is ignored)
GC_DeltaGainNoFrom(cache, delta, node, from, to) ==
  GC_Gain(cache, node, from, to) + GC_DeltaFind(delta, GC_Index(node, to))

\* DeltaGainCache::gain(node, from, to)
GC_DeltaGain(cache, delta, node, from, to) ==
  GC_Gain(cache, node, from, to) + GC_DeltaFind(delta, GC_Index(node, to))
    - GC_DeltaFind(delta, GC_Index(node, from))

GC_NotMoving == <<0, 0, 0, "idle">>
GC_Quiescent == \A u \in GC_Nodes : gc_moving[u] = GC_NotMoving

\* DenseGainCache(k, n): NoinitVector leaves the content of both arrays
\* indeterminate; the partition is the caller's.
GC_Init ==
  /\ gc_graph \in GC_Graphs
  /\ \E p \in GC_StartPartitions : gc_block = [u \in GC_Nodes |-> p[u + 1]]
  /\ \E junk \in {0, 5} :
       /\ _gain_cache = [i \in GC_Slots |-> junk]
       /\ _weighted_degrees = [u \in GC_Nodes |-> junk]
  /\ gc_ready = FALSE
  /\ gc_moving = [u \in GC_Nodes |-> GC_NotMoving]
  /\ gc_nmoves = 0
  /\ gc_block0 = gc_block
  /\ gc_last = <<>>
  /\ _gain_cache_delta = <<>>
  /\ gc_phase = "base"
  /\ gc_copy = _gain_cache
  /\ gc_base0 = <<_gain_cache, _weighted_degrees>>
  /\ gc_ndelta = 0
  /\ gc_overlap = FALSE

\* No gain cache is in use.
GC_Idle ==
  /\ gc_graph = GC_Path
  /\ gc_block = [u \in GC_Nodes |-> 0]
  /\ _gain_cache = [i \in GC_Slots |-> 0]
  /\ _weighted_degrees = [u \in GC_Nodes |-> 0]
  /\ gc_ready = FALSE
  /\ gc_moving = [u \in GC_Nodes |-> GC_NotMoving]
  /\ gc_nmoves = 0
  /\ gc_block0 = gc_block
  /\ gc_last = <<>>
  /\ _gain_cache_delta = <<>>
  /\ gc_phase = "base"
  /\ gc_copy = _gain_cache
  /\ gc_base0 = <<_gain_cache, _weighted_degrees>>
  /\ gc_ndelta = 0
  /\ gc_overlap = FALSE

\* DenseGainCache::initialize(p_graph): reset(); recompute_all(p_graph).
\* Called on a new cache and again at the start of a later refinement, while
\* no move() is running.
GC_Initialize ==
  /\ GC_Quiescent
  /\ _gain_cache' = GC_RecomputeNodes(GC_Reset(_gain_cache), gc_graph, gc_block,
                                      Cardinality(GC_Nodes))
  /\ _weighted_degrees' =
       [u \in GC_Nodes |-> GC_SumWeights(gc_graph, u, GC_Degree(gc_graph, u))]
  /\ gc_ready' = TRUE
  /\ gc_block0' = gc_block
  /\ gc_last' = <<>>
  /\ gc_phase' = "base"
  /\ UNCHANGED <<gc_graph, gc_block, gc_moving, gc_nmoves, _gain_cache_delta,
                 gc_copy, gc_base0, gc_ndelta, gc_overlap>>

\* A thread reassigns node to block_to in the partition and enters
\* DenseGainCache::move(p_graph, node, block_from, block_to).
GC_MoveBegin(node, block_to) ==
  /\ gc_ready
  /\ gc_moving[node] = GC_NotMoving
  /\ block_to # gc_block[node]
  /\ gc_nmoves < MaxMoves
  /\ gc_block' = [gc_block EXCEPT ![node] = block_to]
  /\ gc_moving' = [gc_moving EXCEPT ![node] =
                     IF GC_Degree(gc_graph, node) = 0 THEN GC_NotMoving
                     ELSE <<gc_block[node], block_to, 1, "sub">>]
  /\ gc_nmoves' = gc_nmoves + 1
  /\ gc_last' = <<node, gc_block[node], block_to>>
  /\ gc_phase' = "base"
  /\ gc_overlap' = (gc_overlap \/ ~GC_Quiescent)
  /\ UNCHANGED <<gc_graph, _gain_cache, _weighted_degrees, gc_ready, gc_block0,
                 _gain_cache_delta, gc_copy, gc_base0, gc_ndelta>>

\* (variant: the weight is subtracted from the source block but never added
\* to the target block)
GC_MoveStepNoAdd(node) ==
  /\ gc_moving[node] # GC_NotMoving
  /\ LET m == gc_moving[node]
         v == gc_graph[node][m[3]][1]
         w == gc_graph[node][m[3]][2]
         last == m[3] = GC_Degree(gc_graph, node)
     IN /\ _gain_cache' = IF m[4] = "sub"
                          THEN [_gain_cache EXCEPT ![GC_Index(v, m[1])] = @ - w]
                          ELSE _gain_cache
        /\ gc_moving' = [gc_moving EXCEPT ![node] =
                           IF m[4] = "sub" THEN <<m[1], m[2], m[3], "add">>
                           ELSE IF last THEN GC_NotMoving
                           ELSE <<m[1], m[2], m[3] + 1, "sub">>]
  /\ UNCHANGED <<gc_graph, gc_block, _weighted_degrees, gc_ready, gc_nmoves,
                 gc_block0, gc_last, _gain_cache_delta, gc_phase, gc_copy,
                 gc_base0, gc_ndelta, gc_overlap>>

\* (variant: the weight is added to the target block before it is
\* subtracted from the source block)
GC_MoveStepAddFirst(node) ==
  /\ gc_moving[node] # GC_NotMoving
  /\ LET m == gc_moving[node]
         v == gc_graph[node][m[3]][1]
         w == gc_graph[node][m[3]][2]
         last == m[3] = GC_Degree(gc_graph, node)
     IN /\ _gain_cache' = IF m[4] = "sub"
                          THEN [_gain_cache EXCEPT ![GC_Index(v, m[2])] = @ + w]
                          ELSE [_gain_cache EXCEPT ![GC_Index(v, m[1])] = @ - w]
        /\ gc_moving' = [gc_moving EXCEPT ![node] =
                           IF m[4] = "sub" THEN <<m[1], m[2], m[3], "add">>
                           ELSE IF last THEN GC_NotMoving
                           ELSE <<m[1], m[2], m[3] + 1, "sub">>]
  /\ UNCHANGED <<gc_graph, gc_block, _weighted_degrees, gc_ready, gc_nmoves,
                 gc_block0, gc_last, _gain_cache_delta, gc_phase, gc_copy,
                 gc_base0, gc_ndelta, gc_overlap>>

\* One atomic operation of DenseGainCache::move on the current edge (e, v):
\* __atomic_fetch_sub(&_gain_cache[index(v, block_from)], weight), then
\* __atomic_fetch_add(&_gain_cache[index(v, block_to)], weight)
GC_MoveStep(node) ==
  /\ gc_moving[node] # GC_NotMoving
  /\ LET m == gc_moving[node]
         v == gc_graph[node][m[3]][1]
         w == gc_graph[node][m[3]][2]
         last == m[3] = GC_Degree(gc_graph, node)
     IN /\ _gain_cache' = IF m[4] = "sub"
                          THEN [_gain_cache EXCEPT ![GC_Index(v, m[1])] = @ - w]
                          ELSE [_gain_cache EXCEPT ![GC_Index(v, m[2])] = @ + w]
        /\ gc_moving' = [gc_moving EXCEPT ![node] =
                           IF m[4] = "sub" THEN <<m[1], m[2], m[3], "add">>
                           ELSE IF last THEN GC_NotMoving
                           ELSE <<m[1], m[2], m[3] + 1, "sub">>]
  /\ UNCHANGED <<gc_graph, gc_block, _weighted_degrees, gc_ready, gc_nmoves,
                 gc_block0, gc_last, _gain_cache_delta, gc_phase, gc_copy,
                 gc_base0, gc_ndelta, gc_overlap>>

\* DeltaGainCache::clear() on a delta cache layered over the dense cache,
\* called while no DenseGainCache::move is running
GC_DeltaClear ==
  /\ gc_ready
  /\ GC_Quiescent
  /\ gc_phase = "base" \/ _gain_cache_delta # <<>>
  /\ _gain_cache_delta' = <<>>
  /\ gc_phase' = "delta"
  /\ gc_copy' = _gain_cache
  /\ gc_base0' = IF gc_phase = "base" THEN <<_gain_cache, _weighted_degrees>>
                 ELSE gc_base0
  /\ gc_ndelta' = IF gc_phase = "base" THEN 0 ELSE gc_ndelta
  /\ UNCHANGED <<gc_graph, gc_block, _gain_cache, _weighted_degrees, gc_ready,
                 gc_moving, gc_nmoves, gc_block0, gc_last, gc_overlap>>

\* (variant: the move is written through to the base cache)
GC_DeltaMoveWriteThrough(u, block_from, block_to) ==
  /\ gc_phase = "delta"
  /\ block_from # block_to
  /\ gc_nmoves < MaxMoves
  /\ _gain_cache' = GC_MoveEdges(_gain_cache, gc_graph, u, block_from, block_to,
                                 GC_Degree(gc_graph, u))
  /\ gc_copy' = GC_MoveEdges(gc_copy, gc_graph, u, block_from, block_to,
                             GC_Degree(gc_graph, u))
  /\ gc_nmoves' = gc_nmoves + 1
  /\ gc_ndelta' = gc_ndelta + 1
  /\ UNCHANGED <<gc_graph, gc_block, _weighted_degrees, gc_ready, gc_moving,
                 gc_block0, gc_last, gc_phase, gc_base0, _gain_cache_delta, gc_overlap>>

\* DeltaGainCache::move(d_graph, u, block_from, block_to); gc_copy follows
\* the same move made with DenseGainCache::move on a copy of the base cache
GC_DeltaMove(u, block_from, block_to) ==
  /\ gc_phase = "delta"
  /\ block_from # block_to
  /\ gc_nmoves < MaxMoves
  /\ _gain_cache_delta' =
       GC_DeltaMoveEdges(_gain_cache_delta, gc_graph, u, block_from, block_to,
                         GC_Degree(gc_graph, u))
  /\ gc_copy' = GC_MoveEdges(gc_copy, gc_graph, u, block_from, block_to,
                             GC_Degree(gc_graph, u))
  /\ gc_nmoves' = gc_nmoves + 1
  /\ gc_ndelta' = gc_ndelta + 1
  /\ UNCHANGED <<gc_graph, gc_block, _gain_cache, _weighted_degrees, gc_ready,
                 gc_moving, gc_block0, gc_last, gc_phase, gc_base0, gc_overlap>>

(***************************************************************************)
(* JetRefiner on a distributed graph (jet_refiner.cc); local node ids are  *)
(* the ones graph::Builder assigns (distributed_graph_builder.h)           *)
(***************************************************************************)
JET_Blocks == 0..(NumBlocks - 1)

\* node_distribution arrays: one PE, or two PEs that split the four nodes.
JET_Distributions == {<<0, 4>>, <<0, 2, 4>>, <<0, 1, 4>>}

\* Node weights passed to create_node, by global node.
JET_NodeWeights == {<<1, 1, 1, 1>>, <<1, 2, 1, 2>>}

\* coarse_penalty_factor and fine_penalty_factor as fractions <<num, den>>.
JET_PenaltyFactors == {<<1, 4>>, <<3, 4>>}

JET_PEs == 0..(Len(jet_dist) - 2)
JET_GlobalNodes == 0..(jet_dist[Len(jet_dist)] - 1)

\* _offset_n = node_distribution[rank]
JET_OffsetN(pe) == jet_dist[pe + 1]

\* _local_n = node_distribution[rank + 1] - node_distribution[rank]
JET_LocalN(pe) == jet_dist[pe + 2] - jet_dist[pe + 1]

JET_IsLocalNode(pe, global_u) ==
  JET_OffsetN(pe) <= global_u /\ global_u < JET_OffsetN(pe) + JET_LocalN(pe)

\* find_ghost_owner: the PE whose range of the distribution holds global_u
JET_FindGhostOwner(global_u) ==
  CHOOSE pe \in JET_PEs : JET_IsLocalNode(pe, global_u)

\* The targets of the create_edge calls of a PE, in call order: the edges of
\* its nodes local_u, local_u + 1, ...
RECURSIVE JET_EdgeTargets(_, _)
JET_EdgeTargets(pe, local_u) ==
  IF local_u >= JET_LocalN(pe) THEN <<>>
  ELSE LET adj == jet_graph[JET_OffsetN(pe) + local_u]
       IN  [i \in 1..Len(adj) |-> adj[i][1]] \o JET_EdgeTargets(pe, local_u + 1)

\* create_ghost_node over these targets: a non-local target not seen before
\* is appended to _ghost_to_global.
RECURSIVE JET_CreateGhostNodes(_, _, _)
JET_CreateGhostNodes(pe, targets, ghost_to_global) ==
  IF targets = <<>> THEN ghost_to_global
  ELSE LET global_u == Head(targets)
           known == \/ JET_IsLocalNode(pe, global_u)
                    \/ \E i \in 1..Len(ghost_to_global) : ghost_to_global[i] = global_u
       IN  JET_CreateGhostNodes(pe, Tail(targets),
             IF known THEN ghost_to_global ELSE Append(ghost_to_global, global_u))

\* _ghost_to_global when the edges of all nodes of the PE were created
JET_BuildGhostToGlobal(pe) == JET_CreateGhostNodes(pe, JET_EdgeTargets(pe, 0), <<>>)

JET_GhostToGlobal(pe) == _ghost_to_global[pe]

JET_TotalN(pe) == JET_LocalN(pe) + Len(JET_GhostToGlobal(pe))
JET_OwnedNodes(pe) == 0..(JET_LocalN(pe) - 1)
JET_AllNodes(pe) == 0..(JET_TotalN(pe) - 1)
JET_GhostNodes(pe) == JET_LocalN(pe)..(JET_TotalN(pe) - 1)

\* create_edge: local_v = global_v - _offset_n for a local node, else the
\* ghost id _local_n + (position in _ghost_to_global)
JET_GlobalToLocal(pe, global_u) ==
  IF JET_IsLocalNode(pe, global_u) THEN global_u - JET_OffsetN(pe)
  ELSE LET ghosts == JET_GhostToGlobal(pe)
       IN  JET_LocalN(pe) + (CHOOSE i \in 1..Len(ghosts) : ghosts[i] = global_u) - 1

JET_LocalToGlobal(pe, u) ==
  IF u < JET_LocalN(pe) THEN JET_OffsetN(pe) + u
  ELSE JET_GhostToGlobal(pe)[u - JET_LocalN(pe) + 1]

\* _p_graph.neighbors(u) of an owned node: <<local v, edge weight>> in edge order
JET_Neighbors(pe, u) ==
  LET adj == jet_graph[JET_LocalToGlobal(pe, u)]
  IN  [i \in 1..Len(adj) |-> <<JET_GlobalToLocal(pe, adj[i][1]), adj[i][2]>>]

\* map_foreign_node(their_lnode, pe): the local id of another PE's owned node
JET_MapForeignNode(me, their_lnode, pe) ==
  JET_GlobalToLocal(me, JET_OffsetN(pe) + their_lnode)

RECURSIVE JET_Sum(_)
JET_Sum(s) == IF s = <<>> THEN 0 ELSE Head(s) + JET_Sum(Tail(s))

\* Weight of the edges of u that lead into block b.
JET_Conn(pe, u, b) ==
  LET nb == JET_Neighbors(pe, u)
  IN  JET_Sum([i \in 1..Len(nb) |->
                 IF jet_block[pe][nb[i][1]] = b THEN nb[i][2] ELSE 0])

\* compute_max_gainer(u): an adjacent block other than u's own with the
\* largest connection (ties are broken at random), u's own block if no edge
\* leaves it.
JET_MaxGainerBlocks(pe, u) ==
  LET b_u == jet_block[pe][u]
      ext == {b \in JET_Blocks \ {b_u} : JET_Conn(pe, u, b) > 0}
  IN  IF ext = {} THEN {b_u}
      ELSE {b \in ext : \A c \in ext : JET_Conn(pe, u, c) <= JET_Conn(pe, u, b)}

JET_ComputeMaxGainer(pe, u, b) ==
  [block |-> b,
   int_degree |-> JET_Conn(pe, u, jet_block[pe][u]),
   ext_degree |-> IF b = jet_block[pe][u] THEN 0 ELSE JET_Conn(pe, u, b)]

JET_AbsoluteGain(max_gainer) == max_gainer.ext_degree - max_gainer.int_degree

\* std::floor(_penalty_factor * int_degree), int_degree >= 0
JET_Floor(factor, int_degree) == (factor[1] * int_degree) \div factor[2]

\* (variant: only a positive gain is proposed, the penalty term is left out)
JET_ProposalWithoutPenalty(pe, u, max_gainer) ==
  LET b_u == jet_block[pe][u]
  IN  IF _locked[pe][u] # 0 THEN <<0, b_u>>
      ELSE IF /\ max_gainer.block # b_u
              /\ max_gainer.ext_degree > max_gainer.int_degree
           THEN <<JET_AbsoluteGain(max_gainer), max_gainer.block>>
           ELSE <<0, b_u>>

\* (variant: a locked node proposes like any other)
JET_ProposalOfLocked(pe, u, max_gainer) ==
  LET b_u == jet_block[pe][u]
  IN  IF /\ max_gainer.block # b_u
         /\ \/ max_gainer.ext_degree > max_gainer.int_degree
            \/ JET_AbsoluteGain(max_gainer) >=
                 -JET_Floor(_penalty_factor[pe], max_gainer.int_degree)
      THEN <<JET_AbsoluteGain(max_gainer), max_gainer.block>>
      ELSE <<0, b_u>>

\* The body of the node loop of find_moves.
JET_Proposal(pe, u, max_gainer) ==
  LET b_u == jet_block[pe][u]
  IN  IF _locked[pe][u] # 0 THEN <<0, b_u>>
      ELSE IF /\ max_gainer.block # b_u
              /\ \/ max_gainer.ext_degree > max_gainer.int_degree
                 \/ JET_AbsoluteGain(max_gainer) >=
                      -JET_Floor(_penalty_factor[pe], max_gainer.int_degree)
           THEN <<JET_AbsoluteGain(max_gainer), max_gainer.block>>
           ELSE <<0, b_u>>

\* u proposes a move: its target differs from its block.
JET_Proposes(pe, u) == _gains_and_targets[pe][u][2] # jet_block[pe][u]

\* (variant: equal gains are not broken by the ids)
JET_TreatsAsMovedByGain(pe, u, v) ==
  _gains_and_targets[pe][v][1] > _gains_and_targets[pe][u][1]

\* gain_v > gain_u || (gain_v == gain_u && v < u), on the ids of this PE
JET_TreatsAsMoved(pe, u, v) ==
  LET gain_u == _gains_and_targets[pe][u][1]
      gain_v == _gains_and_targets[pe][v][1]
  IN  gain_v > gain_u \/ (gain_v = gain_u /\ v < u)

\* (variant: the neighbours are taken where they are, no move is projected)
JET_UnprojectedBlock(pe, u, v) == jet_block[pe][v]

JET_ProjectedBlock(pe, u, v) ==
  IF JET_TreatsAsMoved(pe, u, v) THEN _gains_and_targets[pe][v][2]
  ELSE jet_block[pe][v]

JET_ProjectedGain(pe, u) ==
  LET from_u == jet_block[pe][u]
      to_u == _gains_and_targets[pe][u][2]
      nb == JET_Neighbors(pe, u)
  IN  JET_Sum([i \in 1..Len(nb) |->
                 IF JET_ProjectedBlock(pe, u, nb[i][1]) = to_u THEN nb[i][2]
                 ELSE IF JET_ProjectedBlock(pe, u, nb[i][1]) = from_u THEN -nb[i][2]
                 ELSE 0])

\* The iteration of the node loop of move_locked_nodes has not started.
JET_NotMoved == <<"start", 0>>

\* (variant: the atomic addition is lost)
JET_FetchAddLost(deltas, b, w) == deltas

\* __atomic_fetch_add(&_block_weight_deltas[b], w, __ATOMIC_RELAXED), and
\* __atomic_fetch_sub as the addition of -w
JET_FetchAdd(deltas, b, w) == [deltas EXCEPT ![b] = @ + w]

\* Total weight of the nodes of block b in a partition of the global nodes.
JET_BlockWeight(part, b) ==
  JET_Sum([i \in 1..Cardinality(DOMAIN part) |->
             IF part[i - 1] = b THEN jet_node_weight[i - 1] ELSE 0])

\* JetRefiner(ctx, p_graph, p_ctx): the arrays are allocated; the graph is
\* built from a global graph and a node distribution, the partition is the
\* caller's, ghost blocks and block weights are consistent with it.
JET_Init ==
  /\ jet_graph \in GC_Graphs
  /\ jet_dist \in JET_Distributions
  /\ _ghost_to_global = [pe \in JET_PEs |-> JET_BuildGhostToGlobal(pe)]
  /\ \E w \in JET_NodeWeights : jet_node_weight = [u \in GC_Nodes |-> w[u + 1]]
  /\ \E part \in [GC_Nodes -> JET_Blocks] :
       /\ jet_block = [pe \in JET_PEs |->
            [u \in JET_AllNodes(pe) |-> part[JET_LocalToGlobal(pe, u)]]]
       /\ jet_block_weight = [pe \in JET_PEs |->
            [b \in JET_Blocks |-> JET_BlockWeight(part, b)]]
  /\ \E junk \in {0, 1} :
       /\ _gains_and_targets = [pe \in JET_PEs |->
            [u \in JET_AllNodes(pe) |-> <<5 * junk, 0>>]]
       /\ _locked = [pe \in JET_PEs |-> [u \in JET_OwnedNodes(pe) |-> junk]]
       /\ _block_weight_deltas = [pe \in JET_PEs |-> [b \in JET_Blocks |-> 3 * junk]]
  /\ _penalty_factor = [pe \in JET_PEs |-> <<0, 1>>]
  /\ jet_pc = [pe \in JET_PEs |-> "initialize"]
  /\ jet_move = [pe \in JET_PEs |-> [u \in JET_OwnedNodes(pe) |-> JET_NotMoved]]
  /\ jet_iter = 0

\* No refiner is in use.
JET_Idle ==
  /\ jet_graph = GC_Path
  /\ jet_dist = <<0, 4>>
  /\ _ghost_to_global = [pe \in JET_PEs |-> JET_BuildGhostToGlobal(pe)]
  /\ jet_node_weight = [u \in GC_Nodes |-> 1]
  /\ jet_block = <<>>
  /\ jet_block_weight = <<>>
  /\ _gains_and_targets = <<>>
  /\ _locked = <<>>
  /\ _block_weight_deltas = <<>>
  /\ _penalty_factor = <<>>
  /\ jet_pc = <<>>
  /\ jet_move = <<>>
  /\ jet_iter = 0

\* (variant: the locked bits are left as they are)
JET_InitializeKeepingLocks(pe, next) ==
  /\ jet_pc[pe] = "initialize"
  /\ _gains_and_targets' = [_gains_and_targets EXCEPT ![pe] =
       [u \in JET_AllNodes(pe) |-> <<0, jet_block[pe][u]>>]]
  /\ _block_weight_deltas' = [_block_weight_deltas EXCEPT ![pe] =
       [b \in JET_Blocks |-> 0]]
  /\ \E factor \in JET_PenaltyFactors :
       _penalty_factor' = [_penalty_factor EXCEPT ![pe] = factor]
  /\ jet_pc' = [jet_pc EXCEPT ![pe] = next]
  /\ UNCHANGED <<jetGraph, jet_move, jet_block, _locked,
                 jet_block_weight, jet_iter>>

\* initialize() on one PE
JET_InitializeThen(pe, next) ==
  /\ jet_pc[pe] = "initialize"
  /\ _locked' = [_locked EXCEPT ![pe] = [u \in JET_OwnedNodes(pe) |-> 0]]
  /\ _gains_and_targets' = [_gains_and_targets EXCEPT ![pe] =
       [u \in JET_AllNodes(pe) |-> <<0, jet_block[pe][u]>>]]
  /\ _block_weight_deltas' = [_block_weight_deltas EXCEPT ![pe] =
       [b \in JET_Blocks |-> 0]]
  /\ \E factor \in JET_PenaltyFactors :
       _penalty_factor' = [_penalty_factor EXCEPT ![pe] = factor]
  /\ jet_pc' = [jet_pc EXCEPT ![pe] = next]
  /\ UNCHANGED <<jetGraph, jet_move, jet_block,
                 jet_block_weight, jet_iter>>

\* initialize() followed by the first pass
JET_Initialize(pe) == JET_InitializeThen(pe, "find_moves")

\* find_moves() on one PE: the iterations of the node loop write distinct
\* entries and read nothing another iteration writes.
JET_FindMoves(pe) ==
  /\ jet_pc[pe] = "find_moves"
  /\ \E choice \in [JET_OwnedNodes(pe) -> JET_Blocks] :
       /\ \A u \in JET_OwnedNodes(pe) : choice[u] \in JET_MaxGainerBlocks(pe, u)
       /\ _gains_and_targets' = [_gains_and_targets EXCEPT ![pe] =
            [u \in JET_AllNodes(pe) |->
               IF u < JET_LocalN(pe)
               THEN JET_Proposal(pe, u, JET_ComputeMaxGainer(pe, u, choice[u]))
               ELSE @[u]]]
  /\ jet_pc' = [jet_pc EXCEPT ![pe] = "synchronize_candidates"]
  /\ UNCHANGED <<jetGraph, jet_move, jet_block,
                 jet_block_weight, _locked, _block_weight_deltas,
                 _penalty_factor, jet_iter>>

\* synchronize_ghost_node_move_candidates(), a collective of all PEs: every
\* ghost entry is reset to (0, block) and then overwritten by the owner's
\* message, which the owner sends for the nodes that propose a move.
JET_SynchronizeGhostNodeMoveCandidates ==
  /\ \A pe \in JET_PEs : jet_pc[pe] = "synchronize_candidates"
  /\ _gains_and_targets' = [me \in JET_PEs |->
       [u \in JET_AllNodes(me) |->
          IF u < JET_LocalN(me) THEN _gains_and_targets[me][u]
          ELSE LET pe == JET_FindGhostOwner(JET_LocalToGlobal(me, u))
                   their_lnode == JET_LocalToGlobal(me, u) - JET_OffsetN(pe)
               IN  IF /\ JET_Proposes(pe, their_lnode)
                      /\ JET_MapForeignNode(me, their_lnode, pe) = u
                   THEN _gains_and_targets[pe][their_lnode]
                   ELSE <<0, jet_block[me][u]>>]]
  /\ jet_pc' = [pe \in JET_PEs |-> "filter_bad_moves"]
  /\ UNCHANGED <<jetGraph, jet_move, jet_block,
                 jet_block_weight, _locked, _block_weight_deltas,
                 _penalty_factor, jet_iter>>

\* filter_bad_moves() on one PE
JET_FilterBadMoves(pe) ==
  /\ jet_pc[pe] = "filter_bad_moves"
  /\ _locked' = [_locked EXCEPT ![pe] =
       [u \in JET_OwnedNodes(pe) |->
          IF ~JET_Proposes(pe, u) THEN 0
          ELSE IF JET_ProjectedGain(pe, u) >= 0 THEN 1 ELSE 0]]
  /\ jet_pc' = [jet_pc EXCEPT ![pe] = "move_locked_nodes"]
  /\ UNCHANGED <<jetGraph, jet_move, jet_block,
                 jet_block_weight, _gains_and_targets, _block_weight_deltas,
                 _penalty_factor, jet_iter>>

\* One step of the iteration for node u of the parallel loop of
\* move_locked_nodes(): set_block, then the fetch_sub, then the fetch_add.
\* The iteration of a node that is not locked does nothing.
JET_MoveLockedNode(pe, u) ==
  LET w_u == jet_node_weight[JET_LocalToGlobal(pe, u)]
      at == jet_move[pe][u][1]
  IN  /\ _locked[pe][u] # 0
      /\ \/ /\ at = "start"
            /\ jet_block' = [jet_block EXCEPT ![pe][u] = _gains_and_targets[pe][u][2]]
            /\ jet_move' = [jet_move EXCEPT ![pe][u] = <<"fetch_sub", jet_block[pe][u]>>]
            /\ UNCHANGED _block_weight_deltas
         \/ /\ at = "fetch_sub"
            /\ _block_weight_deltas' = [_block_weight_deltas EXCEPT ![pe] =
                 JET_FetchAdd(@, jet_move[pe][u][2], -w_u)]
            /\ jet_move' = [jet_move EXCEPT ![pe][u][1] = "fetch_add"]
            /\ UNCHANGED jet_block
         \/ /\ at = "fetch_add"
            /\ _block_weight_deltas' = [_block_weight_deltas EXCEPT ![pe] =
                 JET_FetchAdd(@, _gains_and_targets[pe][u][2], w_u)]
            /\ jet_move' = [jet_move EXCEPT ![pe][u][1] = "done"]
            /\ UNCHANGED jet_block
      /\ UNCHANGED jet_pc

\* The loop has run for every locked node.
JET_AllMoved(pe) ==
  \A u \in JET_OwnedNodes(pe) : _locked[pe][u] # 0 => jet_move[pe][u][1] = "done"

\* move_locked_nodes() on one PE: the iterations of the node loop in any
\* interleaving, then the end of the loop.
JET_MoveLockedNodes(pe) ==
  /\ jet_pc[pe] = "move_locked_nodes"
  /\ \/ \E u \in JET_OwnedNodes(pe) : JET_MoveLockedNode(pe, u)
     \/ /\ JET_AllMoved(pe)
        /\ jet_pc' = [jet_pc EXCEPT ![pe] = "synchronize_labels"]
        /\ jet_move' = [jet_move EXCEPT ![pe] =
             [u \in JET_OwnedNodes(pe) |-> JET_NotMoved]]
        /\ UNCHANGED <<jet_block, _block_weight_deltas>>
  /\ UNCHANGED <<jetGraph, jet_block_weight, _gains_and_targets, _locked,
                 _penalty_factor, jet_iter>>

\* synchronize_ghost_node_labels() in which no message is sent
JET_SynchronizeNoLabels ==
  /\ \A pe \in JET_PEs : jet_pc[pe] = "synchronize_labels"
  /\ jet_pc' = [pe \in JET_PEs |-> "apply_block_weight_deltas"]
  /\ UNCHANGED <<jetGraph, jet_move, jet_block, jet_block_weight,
                 _gains_and_targets, _locked, _block_weight_deltas,
                 _penalty_factor, jet_iter>>

\* synchronize_ghost_node_labels(), a collective of all PEs: the owners send
\* the blocks of the nodes they moved in this pass.
JET_SynchronizeGhostNodeLabels ==
  /\ \A pe \in JET_PEs : jet_pc[pe] = "synchronize_labels"
  /\ jet_block' = [me \in JET_PEs |->
       [u \in JET_AllNodes(me) |->
          IF u < JET_LocalN(me) THEN jet_block[me][u]
          ELSE LET pe == JET_FindGhostOwner(JET_LocalToGlobal(me, u))
                   their_lnode == JET_LocalToGlobal(me, u) - JET_OffsetN(pe)
               IN  IF /\ _locked[pe][their_lnode] # 0
                      /\ JET_MapForeignNode(me, their_lnode, pe) = u
                   THEN jet_block[pe][their_lnode]
                   ELSE jet_block[me][u]]]
  /\ jet_pc' = [pe \in JET_PEs |-> "apply_block_weight_deltas"]
  /\ UNCHANGED <<jetGraph, jet_move, jet_block_weight,
                 _gains_and_targets, _locked, _block_weight_deltas,
                 _penalty_factor, jet_iter>>

\* apply_block_weight_deltas(), a collective (MPI_Allreduce) of all PEs
JET_ApplyDeltas ==
  /\ \A pe \in JET_PEs : jet_pc[pe] = "apply_block_weight_deltas"
  /\ jet_block_weight' = [pe \in JET_PEs |->
       [b \in JET_Blocks |->
          jet_block_weight[pe][b] +
            JET_Sum([i \in 1..(Len(jet_dist) - 1) |-> _block_weight_deltas[i - 1][b]])]]
  /\ _block_weight_deltas' = [pe \in JET_PEs |-> [b \in JET_Blocks |-> 0]]
  /\ UNCHANGED <<jetGraph, jet_move, jet_block,
                 _gains_and_targets, _locked, _penalty_factor>>

\* apply_block_weight_deltas() and the end of a pass in which the balancer
\* finds the partition balanced and moves nothing and every pass counts as
\* an improvement: ++cur_iteration and the loop condition on num_iterations.
JET_ApplyBlockWeightDeltas ==
  /\ JET_ApplyDeltas
  /\ jet_iter' = jet_iter + 1
  /\ jet_pc' = [pe \in JET_PEs |->
       IF jet_iter + 1 < MaxPasses THEN "find_moves" ELSE "done"]

InitGC == GC_Init /\ CCV_Idle /\ JET_Idle /\ CO_Idle /\ REF_Idle /\ LP_Idle /\ FRA_Idle /\ CG_Idle /\ MSB_Idle /\ LPR_Idle /\ BLD_Idle /\ POOL_Idle /\ SEQ_Idle /\ FA_Idle

NextGC ==
  \/ GC_Initialize /\ UNCHANGED notGcVars
  \/ \E u \in GC_Nodes, b \in GC_Blocks : GC_MoveBegin(u, b) /\ UNCHANGED notGcVars
  \/ \E u \in GC_Nodes : GC_MoveStep(u) /\ UNCHANGED notGcVars
  \/ GC_DeltaClear /\ UNCHANGED notGcVars
  \/ \E u \in GC_Nodes, a \in GC_Blocks, b \in GC_Blocks :
       GC_DeltaMove(u, a, b) /\ UNCHANGED notGcVars

SpecGC == InitGC /\ [][NextGC]_vars

(***************************************************************************)
(* Specifications of the circular vector and its claims                    *)
(***************************************************************************)
\* At most `size` tasks use the vector; the running total of the deltas fits
\* the Value type.
InitCCV ==
  /\ CCV_Init /\ ccv_ntasks \in 1..ccv_size /\ ccv_kassert = TRUE
  /\ GC_Idle /\ JET_Idle /\ CO_Idle /\ REF_Idle /\ LP_Idle /\ FRA_Idle /\ CG_Idle /\ MSB_Idle /\ LPR_Idle /\ BLD_Idle /\ POOL_Idle /\ SEQ_Idle /\ FA_Idle

NextCCV ==
  \/ \E d \in 0..MaxDelta : CCV_Next(d, TRUE) /\ UNCHANGED notCcvVars
  \/ \E e \in CCV_Tickets : CCV_Load(e) /\ UNCHANGED notCcvVars
  \/ \E e \in CCV_Tickets : CCV_StorePrev(e) /\ UNCHANGED notCcvVars
  \/ \E e \in CCV_Tickets : CCV_StorePos(e) /\ UNCHANGED notCcvVars

SpecCCV == InitCCV /\ [][NextCCV]_vars

\* Every call runs on a thread of its own: a call that can take a step
\* eventually takes one.
FairSpecCCV ==
  SpecCCV /\ \A e \in CCV_Tickets : WF_vars(CCV_FetchAndUpdate(e))

\* More tasks than the constructor argument allows (size + 2 is the least
\* number that can overflow the ticket window), and deltas whose total may
\* reach or pass kLock.
InitCCVOver ==
  /\ CCV_Init
  /\ ccv_ntasks \in (ccv_size + 1)..(ccv_size + 2)
  /\ ccv_kassert \in BOOLEAN
  /\ GC_Idle /\ JET_Idle /\ CO_Idle /\ REF_Idle /\ LP_Idle /\ FRA_Idle /\ CG_Idle /\ MSB_Idle /\ LPR_Idle /\ BLD_Idle /\ POOL_Idle /\ SEQ_Idle /\ FA_Idle

NextCCVOver ==
  \/ \E d \in 0..MaxDelta : CCV_Next(d, FALSE) /\ UNCHANGED notCcvVars
  \/ \E e \in CCV_Tickets : CCV_Load(e) /\ UNCHANGED notCcvVars
  \/ \E e \in CCV_Tickets : CCV_StorePrev(e) /\ UNCHANGED notCcvVars
  \/ \E e \in CCV_Tickets : CCV_StorePos(e) /\ UNCHANGED notCcvVars

SpecCCVOver == InitCCVOver /\ [][NextCCVOver]_vars

\* The sum of the deltas passed for tickets 0..t-1.
CCV_PrefixSum(t) == SumTo(ccv_delta, t)
CCV_Returned(t) == ccv_pc[t] = "returned"

GC_BlockSeq(cache, u) == [b \in GC_Blocks |-> GC_WeightedDegreeTo(cache, u, b)]

RECURSIVE GC_CutOfNode(_, _, _, _)
\* weight of the edges 1..i of u whose other end is in another block
GC_CutOfNode(g, block, u, i) ==
  IF i = 0 THEN 0
  ELSE GC_CutOfNode(g, block, u, i - 1) +
       (IF block[g[u][i][1]] # block[u] THEN g[u][i][2] ELSE 0)

\* The edge cut: every cut edge is seen from both of its ends.
GC_EdgeCut(g, block) ==
  SumTo([u \in GC_Nodes |-> GC_CutOfNode(g, block, u, GC_Degree(g, u))],
        Cardinality(GC_Nodes)) \div 2

\* C4: after initialize(), and after every set of move() calls has completed
\* in any interleaving, wdeg[u,b] is the weight of u's edges into block b,
\* the cached weighted degree is the sum of wdeg[u,b] over b, and validate()
\* returns true.
C4_GainCacheConsistent ==
  (gc_ready /\ GC_Quiescent) =>
    /\ \A u \in GC_Nodes, b \in GC_Blocks :
         GC_WeightedDegreeTo(_gain_cache, u, b) =
           GC_Conn(gc_graph, gc_block, u, b, GC_Degree(gc_graph, u))
    /\ \A u \in GC_Nodes :
         _weighted_degrees[u] = SumTo(GC_BlockSeq(_gain_cache, u), NumBlocks)
    /\ GC_Validate(_gain_cache, _weighted_degrees, gc_graph, gc_block)

\* C4 witness: two move() calls overlapped and have completed, leaving two
\* nodes in other blocks than initialize() saw them in.
C4_Witness ==
  /\ gc_ready /\ GC_Quiescent /\ gc_overlap
  /\ Cardinality({u \in GC_Nodes : gc_block[u] # gc_block0[u]}) >= 2

\* C5: in a consistent cache, gain(u, a, b) for u in block a and another block
\* b is the edge cut before minus the edge cut after moving only u to b.
C5_GainIsCutDecrease ==
  (gc_ready /\ GC_Quiescent) =>
    \A u \in GC_Nodes, b \in GC_Blocks :
      b # gc_block[u] =>
        GC_Gain(_gain_cache, u, gc_block[u], b) =
          GC_EdgeCut(gc_graph, gc_block) -
            GC_EdgeCut(gc_graph, [gc_block EXCEPT ![u] = b])

\* C5 witness: after a completed move on the weighted graph some move has a
\* positive and some move a negative gain.
C5_Witness ==
  /\ gc_ready /\ GC_Quiescent /\ gc_last # <<>> /\ gc_graph = GC_Kite
  /\ \E u \in GC_Nodes, b \in GC_Blocks :
       b # gc_block[u] /\ GC_Gain(_gain_cache, u, gc_block[u], b) > 1
  /\ \E u \in GC_Nodes, b \in GC_Blocks :
       b # gc_block[u] /\ GC_Gain(_gain_cache, u, gc_block[u], b) < 0

GC_ScenarioPartition == [u \in GC_Nodes |-> <<0, 1, 1, 0>>[u + 1]]

\* C6 (as claimed): on the unit-weight path 0-1-2-3 with partition [0,1,1,0]
\* the fresh cache has wdeg[0,0]=0, wdeg[0,1]=1, wdeg[1,0]=1, wdeg[1,1]=1;
\* after move(1, 1->0) it has wdeg[0,1]=0, wdeg[0,0]=1, wdeg[2,1]=0,
\* wdeg[2,0]=1 and gain(2, 1, 0) = 1.
C6_ScenarioAsClaimed ==
  (gc_graph = GC_Path /\ gc_ready /\ gc_block0 = GC_ScenarioPartition) =>
    /\ (gc_last = <<>> /\ gc_block = gc_block0) =>
         /\ GC_WeightedDegreeTo(_gain_cache, 0, 0) = 0
         /\ GC_WeightedDegreeTo(_gain_cache, 0, 1) = 1
         /\ GC_WeightedDegreeTo(_gain_cache, 1, 0) = 1
         /\ GC_WeightedDegreeTo(_gain_cache, 1, 1) = 1
    /\ (/\ gc_last = <<1, 1, 0>> /\ GC_Quiescent
        /\ gc_block = [gc_block0 EXCEPT ![1] = 0]) =>
         /\ GC_WeightedDegreeTo(_gain_cache, 0, 1) = 0
         /\ GC_WeightedDegreeTo(_gain_cache, 0, 0) = 1
         /\ GC_WeightedDegreeTo(_gain_cache, 2, 1) = 0
         /\ GC_WeightedDegreeTo(_gain_cache, 2, 0) = 1
         /\ GC_Gain(_gain_cache, 2, 1, 0) = 1

\* C6 (amended): as claimed for the fresh cache and for node 0; after
\* move(1, 1->0) both neighbours of node 2 are in block 0, so wdeg[2,1]=0,
\* wdeg[2,0]=2 and gain(2, 1, 0) = 2.
C6_ScenarioGainCacheMove ==
  (gc_graph = GC_Path /\ gc_ready /\ gc_block0 = GC_ScenarioPartition) =>
    /\ (gc_last = <<>> /\ gc_block = gc_block0) =>
         /\ GC_WeightedDegreeTo(_gain_cache, 0, 0) = 0
         /\ GC_WeightedDegreeTo(_gain_cache, 0, 1) = 1
         /\ GC_WeightedDegreeTo(_gain_cache, 1, 0) = 1
         /\ GC_WeightedDegreeTo(_gain_cache, 1, 1) = 1
    /\ (/\ gc_last = <<1, 1, 0>> /\ GC_Quiescent
        /\ gc_block = [gc_block0 EXCEPT ![1] = 0]) =>
         /\ GC_WeightedDegreeTo(_gain_cache, 0, 1) = 0
         /\ GC_WeightedDegreeTo(_gain_cache, 0, 0) = 1
         /\ GC_WeightedDegreeTo(_gain_cache, 2, 1) = 0
         /\ GC_WeightedDegreeTo(_gain_cache, 2, 0) = 2
         /\ GC_Gain(_gain_cache, 2, 1, 0) = 2

\* C6 witness: move(1, 1->0) has completed on the scenario's path.
C6_Witness ==
  /\ gc_graph = GC_Path /\ gc_ready /\ gc_block0 = GC_ScenarioPartition
  /\ gc_last = <<1, 1, 0>> /\ GC_Quiescent
  /\ gc_block = [gc_block0 EXCEPT ![1] = 0]

\* C7: the dense and the on-the-fly gain cache return the same gain(u, from,
\* to) for every node u and every pair of blocks from, to in [0, k), after
\* any sequence of node moves.
C7_DenseEqualsOnTheFly ==
  (gc_ready /\ GC_Quiescent) =>
    \A u \in GC_Nodes, from \in GC_Blocks, to \in GC_Blocks :
      GC_Gain(_gain_cache, u, from, to) =
        GC_OnTheFlyGain(gc_graph, gc_block, u, from, to)

\* The two caches agree whenever from and to are distinct blocks.
C7_DistinctBlocksAgree ==
  (gc_ready /\ GC_Quiescent) =>
    \A u \in GC_Nodes, from \in GC_Blocks, to \in GC_Blocks :
      from # to =>
        GC_Gain(_gain_cache, u, from, to) =
          GC_OnTheFlyGain(gc_graph, gc_block, u, from, to)

\* C8: after clear() and any sequence of DeltaGainCache::move calls, the delta
\* cache's gain(v, x, y) is the gain a DenseGainCache reports after the same
\* moves were made with DenseGainCache::move on a copy of the base cache;
\* directly after clear() it is the base cache's gain.
C8_DeltaMatchesDenseCopy ==
  gc_phase = "delta" =>
    /\ \A v \in GC_Nodes, x \in GC_Blocks, y \in GC_Blocks :
         GC_DeltaGain(_gain_cache, _gain_cache_delta, v, x, y) =
           GC_Gain(gc_copy, v, x, y)
    /\ _gain_cache_delta = <<>> =>
         \A v \in GC_Nodes, x \in GC_Blocks, y \in GC_Blocks :
           GC_DeltaGain(_gain_cache, _gain_cache_delta, v, x, y) =
             GC_Gain(_gain_cache, v, x, y)

\* C8 witness: two delta moves after clear() changed a gain of the delta cache.
C8_Witness ==
  /\ gc_phase = "delta" /\ gc_ndelta >= 2
  /\ \E v \in GC_Nodes, x \in GC_Blocks, y \in GC_Blocks :
       GC_DeltaGain(_gain_cache, _gain_cache_delta, v, x, y) #
         GC_Gain(_gain_cache, v, x, y)

\* C9: DeltaGainCache::move and DeltaGainCache::clear leave the base cache
\* unchanged: every wdeg entry, weighted degree and gain of the base cache is
\* what it was before the sequence of delta moves and clears.
C9_BaseUnchangedByDelta ==
  gc_phase = "delta" =>
    /\ <<_gain_cache, _weighted_degrees>> = gc_base0
    /\ \A v \in GC_Nodes, x \in GC_Blocks, y \in GC_Blocks :
         GC_Gain(_gain_cache, v, x, y) = GC_Gain(gc_base0[1], v, x, y)

\* C9 witness: a delta move was made and then discarded by clear().
C9_Witness ==
  gc_phase = "delta" /\ gc_ndelta >= 1 /\ _gain_cache_delta = <<>>

(***************************************************************************)
(* Specification of the JET refiner and its claims                         *)
(***************************************************************************)
InitJet == JET_Init /\ CCV_Idle /\ GC_Idle /\ CO_Idle /\ REF_Idle /\ LP_Idle /\ FRA_Idle /\ CG_Idle /\ MSB_Idle /\ LPR_Idle /\ BLD_Idle /\ POOL_Idle /\ SEQ_Idle /\ FA_Idle

NextJet ==
  \/ \E pe \in JET_PEs : JET_Initialize(pe) /\ UNCHANGED notJetVars
  \/ \E pe \in JET_PEs : JET_FindMoves(pe) /\ UNCHANGED notJetVars
  \/ JET_SynchronizeGhostNodeMoveCandidates /\ UNCHANGED notJetVars
  \/ \E pe \in JET_PEs : JET_FilterBadMoves(pe) /\ UNCHANGED notJetVars
  \/ \E pe \in JET_PEs : JET_MoveLockedNodes(pe) /\ UNCHANGED notJetVars
  \/ JET_SynchronizeGhostNodeLabels /\ UNCHANGED notJetVars
  \/ JET_ApplyBlockWeightDeltas /\ UNCHANGED notJetVars

SpecJet == InitJet /\ [][NextJet]_vars

\* The proposals are exchanged and no node has been moved yet: the state in
\* which filter_bad_moves of this PE reads them.
JET_Filtering(pe) == jet_pc[pe] \in {"filter_bad_moves", "move_locked_nodes"}

\* Global nodes u and v are adjacent, both propose a move in this pass, and
\* their owners have the proposals of the pass at hand.
JET_BothPropose(global_u, global_v) ==
  LET pe_u == JET_FindGhostOwner(global_u)
      pe_v == JET_FindGhostOwner(global_v)
  IN  /\ \E i \in 1..Len(jet_graph[global_u]) : jet_graph[global_u][i][1] = global_v
      /\ JET_Filtering(pe_u) /\ JET_Filtering(pe_v)
      /\ JET_Proposes(pe_u, JET_GlobalToLocal(pe_u, global_u))
      /\ JET_Proposes(pe_v, JET_GlobalToLocal(pe_v, global_v))

\* u's owner treats v as moved when it computes the projected gain of u.
JET_OwnerTreatsAsMoved(global_u, global_v) ==
  LET pe_u == JET_FindGhostOwner(global_u)
  IN  JET_TreatsAsMoved(pe_u, JET_GlobalToLocal(pe_u, global_u),
                        JET_GlobalToLocal(pe_u, global_v))

\* C10: of two adjacent nodes u and v that both propose a move in a pass,
\* owned by the same PE or ghosts of each other's PEs, exactly one treats
\* the other as moved in filter_bad_moves: never both and never neither.
C10_TieBreakSymmetry ==
  \A global_u \in JET_GlobalNodes, global_v \in JET_GlobalNodes :
    JET_BothPropose(global_u, global_v) =>
      (JET_OwnerTreatsAsMoved(global_u, global_v)
         # JET_OwnerTreatsAsMoved(global_v, global_u))

\* C10, what the comparison of local ids gives: exactly one of two nodes of
\* the same PE treats the other as moved, and two nodes of different PEs
\* never both do (with equal gains neither does).
C10_SymmetricOnOnePE ==
  \A global_u \in JET_GlobalNodes, global_v \in JET_GlobalNodes :
    JET_BothPropose(global_u, global_v) =>
      IF JET_FindGhostOwner(global_u) = JET_FindGhostOwner(global_v)
      THEN JET_OwnerTreatsAsMoved(global_u, global_v)
             # JET_OwnerTreatsAsMoved(global_v, global_u)
      ELSE ~(/\ JET_OwnerTreatsAsMoved(global_u, global_v)
             /\ JET_OwnerTreatsAsMoved(global_v, global_u))

\* C10, the case of the ghosts: two adjacent nodes of different PEs propose
\* moves with equal gains, both PEs have filtered, and neither node was
\* treated as moved by the other's owner.
C10_Witness ==
  \E global_u \in JET_GlobalNodes, global_v \in JET_GlobalNodes :
    /\ JET_BothPropose(global_u, global_v)
    /\ JET_FindGhostOwner(global_u) # JET_FindGhostOwner(global_v)
    /\ \A pe \in JET_PEs : jet_pc[pe] = "move_locked_nodes"
    /\ ~JET_OwnerTreatsAsMoved(global_u, global_v)
    /\ ~JET_OwnerTreatsAsMoved(global_v, global_u)

\* The block the owner of a global node has it in, and the partition of the
\* global nodes this gives.
JET_OwnerBlock(global_u) ==
  jet_block[JET_FindGhostOwner(global_u)][global_u - JET_OffsetN(JET_FindGhostOwner(global_u))]

JET_Partition == [global_u \in JET_GlobalNodes |-> JET_OwnerBlock(global_u)]

\* No PE is between the start of move_locked_nodes and the end of
\* apply_block_weight_deltas of a pass.
JET_BetweenPasses ==
  \A pe \in JET_PEs :
    jet_pc[pe] \in {"find_moves", "synchronize_candidates", "filter_bad_moves", "done"}

\* C11: block weights that equal the weight of the nodes of each block before
\* a pass do so again after move_locked_nodes and apply_block_weight_deltas,
\* on every PE and for every interleaving of the node loop; the deltas of a
\* PE sum to zero once its loop has ended and are all zero after they are
\* applied.
C11_WeightConsistency ==
  /\ JET_BetweenPasses =>
       \A pe \in JET_PEs, b \in JET_Blocks :
         /\ jet_block_weight[pe][b] = JET_BlockWeight(JET_Partition, b)
         /\ _block_weight_deltas[pe][b] = 0
  /\ \A pe \in JET_PEs :
       jet_pc[pe] \in {"synchronize_labels", "apply_block_weight_deltas"} =>
         JET_Sum([i \in 1..NumBlocks |-> _block_weight_deltas[pe][i - 1]]) = 0

\* C11 witness: a pass on two PEs has ended in which both PEs moved a node,
\* one of them a node of weight 2.
C11_Witness ==
  /\ Len(jet_dist) = 3 /\ jet_iter >= 1
  /\ \A pe \in JET_PEs : jet_pc[pe] = "find_moves"
  /\ \A pe \in JET_PEs : \E u \in JET_OwnedNodes(pe) : _locked[pe][u] # 0
  /\ \E pe \in JET_PEs : \E u \in JET_OwnedNodes(pe) :
       _locked[pe][u] # 0 /\ jet_node_weight[JET_LocalToGlobal(pe, u)] = 2

(***************************************************************************)
(* Coarsener (coarsener.cc, in mpi_helper.h): the hierarchy of coarse      *)
(* graphs of one PE.  A graph is [id, global_n, total_n]; pointers to      *)
(* graphs are graph ids; a mapping is a function from the owned and ghost  *)
(* nodes 0..total_n-1 of a graph to the nodes of the next coarser graph.   *)
(***************************************************************************)
CO_Blocks == 0..(NumBlocks - 1)

\* global_n of the input graph, and its owned and ghost nodes on this PE.
CO_InputSizes == {40}
CO_InputNodes == 0..2

\* nth_coarsest(n)
CO_NthCoarsest(hierarchy, n) ==
  IF Len(hierarchy) > n THEN hierarchy[Len(hierarchy) - n] ELSE _input_graph

\* coarsest()
CO_Coarsest(hierarchy) == CO_NthCoarsest(hierarchy, 0)

\* level()
CO_Level(hierarchy) == Len(hierarchy)

\* (variant: a contraction that reaches the ratio 0.95 exactly is kept)
CO_HasConvergedAbove(before, after) == 100 * after.global_n > 95 * before.global_n

\* has_converged(before, after): 1.0 * after.global_n() / before.global_n() >= 0.95
CO_HasConverged(before, after) == 100 * after.global_n >= 95 * before.global_n

\* What compute_clustering and contract_*_clustering can give for a graph:
\* an empty clustering, or a coarse graph with its mapping.  The coarse
\* graph has as many nodes in total, one node less or half the nodes.
CO_CoarseSizes(graph) ==
  {n \in {graph.global_n, graph.global_n - 1, graph.global_n \div 2} : n >= 1}

\* It has one node less on this PE, if it has more than one.
CO_CoarseTotalN(graph) == IF graph.total_n > 1 THEN graph.total_n - 1 ELSE 1

CO_Clusterings(graph) ==
  {[empty |-> TRUE, global_n |-> 0]} \cup
  {[empty |-> FALSE, global_n |-> n] : n \in CO_CoarseSizes(graph)}

CO_Mappings(graph) == [0..(graph.total_n - 1) -> 0..(CO_CoarseTotalN(graph) - 1)]

\* The coarse graph of an outcome for a graph, as the next graph created.
CO_CGraph(graph, out) ==
  [id |-> co_ngraphs + 1, global_n |-> out.global_n,
   total_n |-> CO_CoarseTotalN(graph)]

\* coarsen_once_local / coarsen_once_global push the contracted graph and
\* its mapping unless the clustering is empty or has_converged.
CO_Keeps(graph, out) == ~out.empty /\ ~CO_HasConverged(graph, CO_CGraph(graph, out))

\* (variant: coarsen_once stops only above max_global_clustering_levels)
CO_StopsAbove == CO_Level(_graph_hierarchy) > co_max_global_levels

\* coarsen_once stops at max_global_clustering_levels.
CO_Stops == CO_Level(_graph_hierarchy) >= co_max_global_levels

\* The contracted graph as it is pushed on the hierarchy; `built` is a
\* history field that records which contraction (contract_local_clustering
\* or contract_global_clustering) produced the level.
CO_Pushed(c_graph, kind) ==
  [id |-> c_graph.id, global_n |-> c_graph.global_n,
   total_n |-> c_graph.total_n, built |-> kind]

\* (variant: local clustering runs again after it was marked converged)
CO_RunsLocalAgain ==
  /\ ~CO_Stops
  /\ CO_Level(_graph_hierarchy) # co_max_local_levels

\* coarsen_once runs the local clustering step.
CO_RunsLocal ==
  /\ ~CO_Stops
  /\ ~_local_clustering_converged
  /\ CO_Level(_graph_hierarchy) # co_max_local_levels

\* The state a call of coarsen_once leaves, from the outcomes of the local
\* and of the global clustering step (each used only if the step runs) and
\* the mapping of the contraction that is kept.
CO_CoarsenOnceResult(local_out, global_out, mapping) ==
  LET graph == CO_Coarsest(_graph_hierarchy)
      stop == CO_Stops
      converged == ~CO_RunsLocal
      unchanged == [hierarchy |-> _graph_hierarchy,
                    local |-> _local_mapping_hierarchy,
                    global |-> _global_mapping_hierarchy,
                    converged |-> _local_clustering_converged,
                    ret |-> graph.id, steps |-> <<>>]
      local_step == [kind |-> "local", empty |-> local_out.empty,
                     global_n |-> local_out.global_n]
      global_step == [kind |-> "global", empty |-> global_out.empty,
                      global_n |-> global_out.global_n]
  IN  IF stop THEN unchanged
      ELSE IF ~converged /\ CO_Keeps(graph, local_out)
      THEN [unchanged EXCEPT
              !.hierarchy = Append(@, CO_Pushed(CO_CGraph(graph, local_out), "local")),
              !.local = Append(@, mapping),
              !.ret = CO_CGraph(graph, local_out).id,
              !.steps = <<local_step>>]
      ELSE IF CO_Keeps(graph, global_out)
      THEN [unchanged EXCEPT
              !.hierarchy = Append(@, CO_Pushed(CO_CGraph(graph, global_out), "global")),
              !.global = Append(@, mapping),
              !.converged = TRUE,
              !.ret = CO_CGraph(graph, global_out).id,
              !.steps = IF converged THEN <<global_step>>
                        ELSE <<local_step, global_step>>]
      ELSE [unchanged EXCEPT
              !.converged = TRUE,
              !.steps = IF converged THEN <<global_step>>
                        ELSE <<local_step, global_step>>]

\* No partition of the coarsest graph is at hand.
CO_NoPartition == [graph |-> -1, k |-> 0, partition |-> <<>>, block_weights |-> <<>>]

\* The hierarchy before a call, for the history.
CO_Snapshot ==
  [hierarchy |-> _graph_hierarchy, local |-> _local_mapping_hierarchy,
   global |-> _global_mapping_hierarchy]

\* Coarsener(input_graph, input_ctx)
CO_Init ==
  /\ \E n \in CO_InputSizes : _input_graph = [id |-> 0, global_n |-> n, total_n |-> Cardinality(CO_InputNodes)]
  /\ _graph_hierarchy = <<>>
  /\ _local_mapping_hierarchy = <<>>
  /\ _global_mapping_hierarchy = <<>>
  /\ _local_clustering_converged = FALSE
  /\ co_max_global_levels \in 0..MaxLevels
  /\ co_max_local_levels \in 0..MaxLevels
  /\ co_pgraph = CO_NoPartition
  /\ co_ngraphs = 0
  /\ co_npops = 0
  /\ co_last = [op |-> "none"]

\* coarsen_once(max_cluster_weight); a partition of the former coarsest
\* graph is of no use to the caller any more.
CO_CoarsenOnce ==
  /\ co_ngraphs < MaxGraphs
  /\ \E local_out \in IF CO_RunsLocal
                        THEN CO_Clusterings(CO_Coarsest(_graph_hierarchy))
                        ELSE {[empty |-> TRUE, global_n |-> 0]} :
     \E global_out \in IF CO_Stops \/ (CO_RunsLocal /\
                              CO_Keeps(CO_Coarsest(_graph_hierarchy), local_out))
                         THEN {[empty |-> TRUE, global_n |-> 0]}
                         ELSE CO_Clusterings(CO_Coarsest(_graph_hierarchy)) :
     \E mapping \in IF \/ CO_Keeps(CO_Coarsest(_graph_hierarchy), local_out)
                       \/ CO_Keeps(CO_Coarsest(_graph_hierarchy), global_out)
                    THEN CO_Mappings(CO_Coarsest(_graph_hierarchy))
                    ELSE {<<>>} :
       LET result == CO_CoarsenOnceResult(local_out, global_out, mapping)
       IN  /\ _graph_hierarchy' = result.hierarchy
           /\ _local_mapping_hierarchy' = result.local
           /\ _global_mapping_hierarchy' = result.global
           /\ _local_clustering_converged' = result.converged
           /\ co_ngraphs' = IF Len(result.hierarchy) > Len(_graph_hierarchy)
                            THEN co_ngraphs + 1 ELSE co_ngraphs
           /\ co_last' = [op |-> "coarsen_once", before |-> CO_Snapshot,
                          ret |-> result.ret, steps |-> result.steps]
  /\ co_pgraph' = CO_NoPartition
  /\ UNCHANGED <<_input_graph, co_max_global_levels, co_max_local_levels, co_npops>>

\* Block weights of a partition: every block has weight, and the weights add
\* up to the total node weight of the input graph (four nodes of weight 1).
CO_BlockWeights ==
  {w \in [CO_Blocks -> 1..Cardinality(GC_Nodes)] :
     JET_Sum([i \in 1..NumBlocks |-> w[i - 1]]) = Cardinality(GC_Nodes)}

\* The caller partitions the coarsest graph (initial partitioning).
CO_Partition ==
  /\ co_pgraph = CO_NoPartition
  /\ \E partition \in [0..(CO_Coarsest(_graph_hierarchy).total_n - 1) -> CO_Blocks],
        block_weights \in CO_BlockWeights :
       co_pgraph' = [graph |-> CO_Coarsest(_graph_hierarchy).id, k |-> NumBlocks,
                     partition |-> partition, block_weights |-> block_weights]
  /\ co_last' = [op |-> "partition"]
  /\ UNCHANGED <<_input_graph, _graph_hierarchy, _local_mapping_hierarchy,
                 _global_mapping_hierarchy, _local_clustering_converged,
                 co_max_global_levels, co_max_local_levels, co_ngraphs, co_npops>>

\* (variant: the projection reads the block at the fine node's own id, past
\* the end of the coarse partition for the last nodes)
CO_ProjectUnmapped(new_coarsest, p_graph, mapping) ==
  [u \in 0..(new_coarsest.total_n - 1) |->
     IF u \in DOMAIN p_graph.partition THEN p_graph.partition[u] ELSE p_graph.k]

\* (variant: every node gets the block of the coarse node of node 0)
CO_ProjectFirst(new_coarsest, p_graph, mapping) ==
  [u \in 0..(new_coarsest.total_n - 1) |-> p_graph.partition[mapping[0]]]

\* partition[u] = p_graph.block(mapping[u]) for all nodes of new_coarsest
CO_Project(new_coarsest, p_graph, mapping) ==
  [u \in 0..(new_coarsest.total_n - 1) |-> p_graph.partition[mapping[u]]]

\* (variant: the mapping is popped, the graph stays in the hierarchy)
CO_UncoarsenOnceLocalKeepsGraph ==
  LET new_coarsest == CO_NthCoarsest(_graph_hierarchy, 1)
      mapping == _local_mapping_hierarchy[Len(_local_mapping_hierarchy)]
  IN  /\ _local_mapping_hierarchy # <<>>
      /\ _local_mapping_hierarchy' = SubSeq(_local_mapping_hierarchy, 1,
                                            Len(_local_mapping_hierarchy) - 1)
      /\ _graph_hierarchy' = _graph_hierarchy
      /\ co_pgraph' = [graph |-> CO_Coarsest(_graph_hierarchy').id,
                       k |-> co_pgraph.k,
                       partition |-> CO_Project(new_coarsest, co_pgraph, mapping),
                       block_weights |-> co_pgraph.block_weights]
      /\ UNCHANGED _global_mapping_hierarchy

\* uncoarsen_once_local(p_graph)
CO_UncoarsenOnceLocal ==
  LET new_coarsest == CO_NthCoarsest(_graph_hierarchy, 1)
      mapping == _local_mapping_hierarchy[Len(_local_mapping_hierarchy)]
  IN  /\ _local_mapping_hierarchy # <<>>
      /\ _local_mapping_hierarchy' = SubSeq(_local_mapping_hierarchy, 1,
                                            Len(_local_mapping_hierarchy) - 1)
      /\ _graph_hierarchy' = SubSeq(_graph_hierarchy, 1, Len(_graph_hierarchy) - 1)
      /\ co_pgraph' = [graph |-> CO_Coarsest(_graph_hierarchy').id,
                       k |-> co_pgraph.k,
                       partition |-> CO_Project(new_coarsest, co_pgraph, mapping),
                       block_weights |-> co_pgraph.block_weights]
      /\ UNCHANGED _global_mapping_hierarchy

\* uncoarsen_once_global(p_graph); project_global_contracted_graph gives
\* every node the block of the coarse node it is mapped to.
CO_UncoarsenOnceGlobal ==
  LET new_coarsest == CO_NthCoarsest(_graph_hierarchy, 1)
      mapping == _global_mapping_hierarchy[Len(_global_mapping_hierarchy)]
  IN  /\ _graph_hierarchy' = SubSeq(_graph_hierarchy, 1, Len(_graph_hierarchy) - 1)
      /\ _global_mapping_hierarchy' = SubSeq(_global_mapping_hierarchy, 1,
                                             Len(_global_mapping_hierarchy) - 1)
      /\ co_pgraph' = [graph |-> CO_Coarsest(_graph_hierarchy').id,
                       k |-> co_pgraph.k,
                       partition |-> CO_Project(new_coarsest, co_pgraph, mapping),
                       block_weights |-> co_pgraph.block_weights]
      /\ UNCHANGED _local_mapping_hierarchy

\* uncoarsen_once(p_graph): the caller passes a partition of the coarsest
\* graph while a mapping is left (the two KASSERTs).
CO_UncoarsenOnce ==
  /\ co_pgraph # CO_NoPartition
  /\ CO_Coarsest(_graph_hierarchy).id = co_pgraph.graph
  /\ _global_mapping_hierarchy # <<>> \/ _local_mapping_hierarchy # <<>>
  /\ IF _global_mapping_hierarchy # <<>>
     THEN CO_UncoarsenOnceGlobal ELSE CO_UncoarsenOnceLocal
  /\ co_npops' = co_npops + 1
  /\ co_last' = [op |-> "uncoarsen_once", before |-> CO_Snapshot,
                 p_graph |-> co_pgraph]
  /\ UNCHANGED <<_input_graph, _local_clustering_converged,
                 co_max_global_levels, co_max_local_levels, co_ngraphs>>

InitCO == CO_Init /\ CCV_Idle /\ GC_Idle /\ JET_Idle /\ REF_Idle /\ LP_Idle /\ FRA_Idle /\ CG_Idle /\ MSB_Idle /\ LPR_Idle /\ BLD_Idle /\ POOL_Idle /\ SEQ_Idle /\ FA_Idle

NextCO ==
  \/ CO_CoarsenOnce /\ UNCHANGED notCoVars
  \/ CO_Partition /\ UNCHANGED notCoVars
  \/ CO_UncoarsenOnce /\ UNCHANGED notCoVars

SpecCO == InitCO /\ [][NextCO]_vars

(***************************************************************************)
(* The uncoarsening loop on the input graph: the coarsener of PE 0 builds  *)
(* and drops its levels, and the partition it projects onto the input      *)
(* graph is refined by the JET refiner on two PEs.                         *)
(***************************************************************************)
\* The refiner has not been constructed.
JET_Unconstructed == jet_pc = <<>>

\* The input graph is the path 0-1-2-3 with unit weights split over two PEs;
\* the coarsener's input graph is the part of it PE 0 has.  The first level
\* is clustered locally, the levels above it globally.
InitMultilevel ==
  /\ jet_graph = GC_Path
  /\ jet_dist = <<0, 2, 4>>
  /\ _ghost_to_global = [pe \in JET_PEs |-> JET_BuildGhostToGlobal(pe)]
  /\ jet_node_weight = [u \in GC_Nodes |-> 1]
  /\ jet_block = <<>>
  /\ jet_block_weight = <<>>
  /\ _gains_and_targets = <<>>
  /\ _locked = <<>>
  /\ _block_weight_deltas = <<>>
  /\ _penalty_factor = <<>>
  /\ jet_pc = <<>>
  /\ jet_move = <<>>
  /\ jet_iter = 0
  /\ CO_Init
  /\ _input_graph.total_n = JET_TotalN(0)
  /\ co_max_local_levels = 1
  /\ co_max_global_levels = MaxLevels
  /\ CCV_Idle /\ GC_Idle /\ REF_Idle /\ LP_Idle /\ FRA_Idle /\ CG_Idle /\ MSB_Idle /\ LPR_Idle /\ BLD_Idle /\ POOL_Idle /\ SEQ_Idle /\ FA_Idle

\* The partition of the input graph that uncoarsening (or the initial
\* partitioning, if nothing was coarsened) left is handed to a new JET
\* refiner: JetRefiner(ctx, p_graph, p_ctx) on every PE.  PE 1 has its own
\* projection, which agrees with the one of PE 0 on the nodes both have.
ML_ConstructRefiner ==
  /\ JET_Unconstructed
  /\ co_pgraph # CO_NoPartition
  /\ _graph_hierarchy = <<>>
  /\ co_pgraph.graph = _input_graph.id
  /\ \E part \in [JET_GlobalNodes -> JET_Blocks] :
       /\ \A u \in JET_AllNodes(0) :
            part[JET_LocalToGlobal(0, u)] = co_pgraph.partition[u]
       /\ \A b \in JET_Blocks : co_pgraph.block_weights[b] = JET_BlockWeight(part, b)
       /\ jet_block' = [pe \in JET_PEs |->
            [u \in JET_AllNodes(pe) |-> part[JET_LocalToGlobal(pe, u)]]]
  /\ jet_block_weight' = [pe \in JET_PEs |-> co_pgraph.block_weights]
  /\ \E junk \in {0, 1} :
       /\ _gains_and_targets' = [pe \in JET_PEs |->
            [u \in JET_AllNodes(pe) |-> <<5 * junk, 0>>]]
       /\ _locked' = [pe \in JET_PEs |-> [u \in JET_OwnedNodes(pe) |-> junk]]
       /\ _block_weight_deltas' = [pe \in JET_PEs |-> [b \in JET_Blocks |-> 3 * junk]]
  /\ _penalty_factor' = [pe \in JET_PEs |-> <<0, 1>>]
  /\ jet_pc' = [pe \in JET_PEs |-> "initialize"]
  /\ jet_move' = [pe \in JET_PEs |-> [u \in JET_OwnedNodes(pe) |-> JET_NotMoved]]
  /\ co_last' = [op |-> "refine"]
  /\ UNCHANGED <<jetGraph, jet_iter, ccvVars, gcVars, refVars, lpVars, fraVars, cgVars, msbVars, lprVars, bldVars, poolVars, seqVars, faVars>>
  /\ UNCHANGED <<_input_graph, _graph_hierarchy, _local_mapping_hierarchy,
                 _global_mapping_hierarchy, _local_clustering_converged,
                 co_max_global_levels, co_max_local_levels, co_pgraph,
                 co_ngraphs, co_npops>>

NextMultilevel ==
  \/ JET_Unconstructed /\ CO_CoarsenOnce /\ UNCHANGED notCoVars
  \/ JET_Unconstructed /\ CO_Partition /\ UNCHANGED notCoVars
  \/ JET_Unconstructed /\ CO_UncoarsenOnce /\ UNCHANGED notCoVars
  \/ ML_ConstructRefiner
  \/ ~JET_Unconstructed /\ NextJet

SpecMultilevel == InitMultilevel /\ [][NextMultilevel]_vars

\* C12: every owned and every ghost node has a block in [0, k): on every PE
\* of the JET refiner in every phase, so after move_locked_nodes and after
\* synchronize_ghost_node_labels, and in every partition uncoarsen_once
\* returns, which has a block for each node of the graph it is a partition of.
C12_PartitionTotality ==
  /\ ~JET_Unconstructed =>
       \A pe \in JET_PEs : \A u \in JET_AllNodes(pe) :
         0 <= jet_block[pe][u] /\ jet_block[pe][u] < NumBlocks
  /\ co_pgraph # CO_NoPartition =>
       /\ DOMAIN co_pgraph.partition = 0..(CO_Coarsest(_graph_hierarchy).total_n - 1)
       /\ \A u \in DOMAIN co_pgraph.partition :
            0 <= co_pgraph.partition[u] /\ co_pgraph.partition[u] < co_pgraph.k

\* C12 witness: a partition projected by uncoarsen_once was refined, both PEs
\* moved a node in a pass and the ghost labels have been synchronized.
C12_Witness ==
  /\ co_npops >= 1 /\ ~JET_Unconstructed /\ jet_iter >= 1
  /\ \A pe \in JET_PEs :
       /\ jet_pc[pe] = "find_moves"
       /\ \E u \in JET_OwnedNodes(pe) : _locked[pe][u] # 0

(***************************************************************************)
(* Claims about the Coarsener.                                             *)
(***************************************************************************)
\* C17: uncoarsen_once with a local mapping on top returns a partition of
\* the graph below the coarsest one that gives every node u of that graph,
\* owned or ghost, the block of mapping[u], has the same k and the same block
\* weights, and removes exactly the last graph and the last local mapping.
C17_LocalProjection ==
  (co_last.op = "uncoarsen_once" /\ co_last.before.global = <<>>) =>
    LET before == co_last.before
        coarse == co_last.p_graph
        mapping == before.local[Len(before.local)]
        below == IF Len(before.hierarchy) > 1
                 THEN before.hierarchy[Len(before.hierarchy) - 1]
                 ELSE _input_graph
    IN  /\ co_pgraph.graph = below.id
        /\ DOMAIN co_pgraph.partition = 0..(below.total_n - 1)
        /\ \A u \in 0..(below.total_n - 1) :
             co_pgraph.partition[u] = coarse.partition[mapping[u]]
        /\ co_pgraph.k = coarse.k
        /\ co_pgraph.block_weights = coarse.block_weights
        /\ Len(before.hierarchy) >= 1
        /\ _graph_hierarchy = SubSeq(before.hierarchy, 1, Len(before.hierarchy) - 1)
        /\ _local_mapping_hierarchy = SubSeq(before.local, 1, Len(before.local) - 1)
        /\ _global_mapping_hierarchy = before.global

\* C17 witness: a local projection whose mapping merges two nodes and whose
\* result has nodes in different blocks.
C17_Witness ==
  /\ co_last.op = "uncoarsen_once" /\ co_last.before.global = <<>>
  /\ LET mapping == co_last.before.local[Len(co_last.before.local)]
     IN  \E u, v \in DOMAIN mapping : u # v /\ mapping[u] = mapping[v]
  /\ \E u, v \in DOMAIN co_pgraph.partition :
       co_pgraph.partition[u] # co_pgraph.partition[v]

\* C18: levels are dropped last in, first out.  The hierarchy has one graph
\* per mapping; uncoarsen_once removes the last graph and returns a partition
\* of the graph that was directly below it; when as many levels were dropped
\* as were pushed, coarsest() is the input graph, level() is 0 and no mapping
\* remains; the input graph is no member of the hierarchy.
C18_LastInFirstOut ==
  /\ Len(_graph_hierarchy) =
       Len(_local_mapping_hierarchy) + Len(_global_mapping_hierarchy)
  /\ Len(_graph_hierarchy) = co_ngraphs - co_npops
  /\ \A i \in DOMAIN _graph_hierarchy : _graph_hierarchy[i].id # _input_graph.id
  /\ co_last.op = "uncoarsen_once" =>
       LET before == co_last.before.hierarchy
       IN  /\ Len(before) >= 1
           /\ _graph_hierarchy = SubSeq(before, 1, Len(before) - 1)
           /\ co_pgraph.graph = IF Len(before) > 1 THEN before[Len(before) - 1].id
                                ELSE _input_graph.id
           /\ co_pgraph.graph = CO_Coarsest(_graph_hierarchy).id
  /\ co_npops = co_ngraphs =>
       /\ CO_Coarsest(_graph_hierarchy) = _input_graph
       /\ CO_Level(_graph_hierarchy) = 0
       /\ _local_mapping_hierarchy = <<>>
       /\ _global_mapping_hierarchy = <<>>

\* C18 witness: two levels were pushed, one with a local and one with a
\* global mapping, and the second uncoarsen_once call has returned.
C18_Witness ==
  /\ co_ngraphs = 2 /\ co_npops = 2
  /\ co_last.op = "uncoarsen_once"
  /\ Len(co_last.before.hierarchy) = 1
  /\ Len(co_last.before.local) = 1
  /\ co_pgraph.graph = _input_graph.id

\* C19: a call of coarsen_once runs up to two clustering steps.  A step is
\* kept iff its clustering is not empty and coarse global_n / fine global_n
\* < 0.95.  A step that is kept is the last one, appends its graph to the hierarchy and its mapping
\* to the stack of its kind, raises level() by one and has the new graph
\* returned; if no step is kept, the hierarchy and both mapping stacks are as
\* before and the previously coarsest graph is returned.
C19_KeepsIffShrunk ==
  co_last.op = "coarsen_once" =>
    LET before == co_last.before
        fine == CO_Coarsest(before.hierarchy)
        steps == co_last.steps
        n == Len(steps)
        Kept(step) == ~step.empty /\ 100 * step.global_n < 95 * fine.global_n
    IN  /\ \A i \in 1..(n - 1) : ~Kept(steps[i])
        /\ IF n > 0 /\ Kept(steps[n])
           THEN /\ Len(_graph_hierarchy) = Len(before.hierarchy) + 1
                /\ SubSeq(_graph_hierarchy, 1, Len(before.hierarchy)) = before.hierarchy
                /\ CO_Coarsest(_graph_hierarchy).global_n = steps[n].global_n
                /\ co_last.ret = CO_Coarsest(_graph_hierarchy).id
                /\ co_last.ret # fine.id
                /\ IF steps[n].kind = "local"
                   THEN /\ Len(_local_mapping_hierarchy) = Len(before.local) + 1
                        /\ _global_mapping_hierarchy = before.global
                   ELSE /\ Len(_global_mapping_hierarchy) = Len(before.global) + 1
                        /\ _local_mapping_hierarchy = before.local
           ELSE /\ _graph_hierarchy = before.hierarchy
                /\ _local_mapping_hierarchy = before.local
                /\ _global_mapping_hierarchy = before.global
                /\ co_last.ret = fine.id

\* C19 witness: the local step contracts 20 nodes to 19, a ratio of exactly
\* 0.95, and is dropped; the global step of the same call is kept.
C19_Witness ==
  /\ co_last.op = "coarsen_once"
  /\ Len(co_last.steps) = 2
  /\ LET fine == CO_Coarsest(co_last.before.hierarchy)
     IN  /\ ~co_last.steps[1].empty
         /\ 100 * co_last.steps[1].global_n = 95 * fine.global_n
         /\ ~co_last.steps[2].empty
         /\ 100 * co_last.steps[2].global_n < 95 * fine.global_n

(***************************************************************************)
(* JetRefiner::refine: the pass loop with the balancer, the snapshooter,   *)
(* the stopping rule and the rollback                                      *)
(***************************************************************************)
\* std::numeric_limits<int>::max()
IntMax == 2147483647

\* fruitless_threshold as a fraction <<num, den>> in [0, 1]
REF_Thresholds == {<<0, 1>>, <<1, 2>>, <<1, 1>>}

\* max_block_weight for epsilon = 0: the total node weight over k, rounded up
REF_MaxBlockWeight ==
  (JET_Sum([i \in 1..Cardinality(JET_GlobalNodes) |-> jet_node_weight[i - 1]])
     + NumBlocks - 1) \div NumBlocks

\* _ctx.refinement.jet: no limit or MaxPasses passes, no limit or one
\* fruitless pass, and at least one of the two limits
REF_Contexts ==
  {ctx \in [num_iterations : {0, MaxPasses}, num_fruitless_iterations : {0, 1},
            fruitless_threshold : REF_Thresholds,
            max_block_weight : {REF_MaxBlockWeight}] :
     ctx.num_iterations # 0 \/ ctx.num_fruitless_iterations # 0}

\* The refiner runs on the path, on one PE or on two PEs with two nodes each.
REF_Distributions == {<<0, 4>>, <<0, 2, 4>>}

\* The partitions refine() is called for, by global node: cut 1, cut 3,
\* cut 2, and one with a block that is too heavy.
REF_StartPartitions == {<<0, 0, 1, 1>>, <<0, 1, 0, 1>>, <<0, 1, 1, 0>>, <<0, 0, 0, 1>>}

\* The weight of the edges of the owned node u of a PE whose other end,
\* owned or ghost, has another block.
JET_NodeCut(block, pe, u) ==
  LET nb == JET_Neighbors(pe, u)
  IN  SumTo([j \in 0..(Len(nb) - 1) |->
               IF block[pe][nb[j + 1][1]] # block[pe][u] THEN nb[j + 1][2] ELSE 0],
            Len(nb))

\* What one PE adds to the edge cut.
JET_LocalCut(block, pe) ==
  SumTo([u \in JET_OwnedNodes(pe) |-> JET_NodeCut(block, pe, u)], JET_LocalN(pe))

\* metrics::edge_cut: the sum over all PEs (MPI_Allreduce), every cut edge
\* is counted from both ends.
JET_EdgeCutOf(block) ==
  SumTo([pe \in JET_PEs |-> JET_LocalCut(block, pe)], Len(jet_dist) - 1) \div 2

JET_EdgeCut == JET_EdgeCutOf(jet_block)

\* (variant: 0 is taken as the limit)
REF_LimitZero(n) == n

\* A limit of 0 means no limit.
REF_Limit(n) == IF n = 0 THEN IntMax ELSE n

\* best_cut - final_cut > (1.0 - fruitless_threshold) * best_cut
REF_Improved(best, final, threshold) ==
  threshold[2] * (best - final) > (threshold[2] - threshold[1]) * best

\* (variant: the partition after every pass is taken as the snapshot)
REF_SnapshotAlways(cut, snapshot_cut) == TRUE

\* _snapshooter.update keeps the partition if its cut improved.
REF_SnapshotBetter(cut, snapshot_cut) == cut < snapshot_cut

\* cur_iteration < max_num_iterations &&
\* cur_fruitless_iteration < max_num_fruitless_iterations
REF_Continues(iteration, fruitless) ==
  /\ iteration < REF_Limit(_jet_ctx.num_iterations)
  /\ fruitless < REF_Limit(_jet_ctx.num_fruitless_iterations)

\* return initial_cut > best_cut
REF_ReturnValue == IF initial_cut > best_cut THEN "true" ELSE "false"

\* The refiner is constructed for a partition of the unit-weight path.
REF_Init ==
  /\ JET_Init
  /\ jet_graph = GC_Path
  /\ jet_dist \in REF_Distributions
  /\ \A u \in GC_Nodes : jet_node_weight[u] = 1
  /\ \E part \in REF_StartPartitions :
       \A u \in GC_Nodes : JET_OwnerBlock(u) = part[u + 1]
  /\ _jet_ctx \in REF_Contexts
  /\ initial_cut = 0
  /\ best_cut = 0
  /\ cur_fruitless_iteration = 0
  /\ _snapshooter = [pe \in JET_PEs |->
       [block |-> [u \in JET_AllNodes(pe) |-> 0],
        block_weight |-> [b \in JET_Blocks |-> 0], cut |-> 0]]
  /\ jet_return = "none"
  /\ ref_hist = [last_cut |-> 0, balanced |-> FALSE]

\* initialize(): _snapshooter.init keeps the partition, then the arrays are
\* reset; the graph is small enough for the coarse penalty factor.  The
\* caller goes on to refine().
REF_Initialize(pe) ==
  /\ JET_InitializeThen(pe, "refine")
  /\ _penalty_factor'[pe] = <<3, 4>>
  /\ _snapshooter' = [_snapshooter EXCEPT ![pe] =
       [block |-> jet_block[pe], block_weight |-> jet_block_weight[pe],
        cut |-> JET_EdgeCut]]
  /\ UNCHANGED <<_jet_ctx, initial_cut, best_cut, cur_fruitless_iteration,
                 jet_return, ref_hist>>

\* refine() up to the loop: the counters and the two cuts; metrics::edge_cut
\* is a collective.
REF_Enter ==
  /\ \A pe \in JET_PEs : jet_pc[pe] = "refine"
  /\ cur_fruitless_iteration' = 0
  /\ jet_iter' = 0
  /\ initial_cut' = JET_EdgeCut
  /\ best_cut' = JET_EdgeCut
  /\ jet_pc' = [pe \in JET_PEs |-> "find_moves"]
  /\ UNCHANGED <<jetGraph, jet_move, jet_block, jet_block_weight,
                 _gains_and_targets, _locked, _block_weight_deltas,
                 _penalty_factor, _jet_ctx, _snapshooter, jet_return, ref_hist>>

\* apply_block_weight_deltas() in the loop of refine()
REF_ApplyBlockWeightDeltas ==
  /\ JET_ApplyDeltas
  /\ jet_pc' = [pe \in JET_PEs |-> "rebalance"]
  /\ UNCHANGED <<jet_iter, refVars>>

\* _balancer->initialize(); _balancer->refine(): if a block is heavier than
\* the maximum block weight, the balancer moves a node out of it into a block
\* that has room for it, or finds no move set to move.
REF_Rebalance ==
  /\ \A pe \in JET_PEs : jet_pc[pe] = "rebalance"
  /\ \/ UNCHANGED <<jet_block, jet_block_weight, ref_hist>>
     \/ \E global_u \in JET_GlobalNodes, to \in JET_Blocks :
          LET from == JET_OwnerBlock(global_u)
              w_u == jet_node_weight[global_u]
          IN  /\ jet_block_weight[0][from] > _jet_ctx.max_block_weight
              /\ to # from
              /\ jet_block_weight[0][to] + w_u <= _jet_ctx.max_block_weight
              /\ jet_block' = [pe \in JET_PEs |->
                   [u \in JET_AllNodes(pe) |->
                      IF JET_LocalToGlobal(pe, u) = global_u THEN to
                      ELSE jet_block[pe][u]]]
              /\ jet_block_weight' = [pe \in JET_PEs |->
                   [jet_block_weight[pe] EXCEPT ![from] = @ - w_u, ![to] = @ + w_u]]
              /\ ref_hist' = [ref_hist EXCEPT !.balanced = TRUE]
  /\ jet_pc' = [pe \in JET_PEs |-> "update"]
  /\ UNCHANGED <<jetGraph, jet_move, _gains_and_targets, _locked,
                 _block_weight_deltas, _penalty_factor, jet_iter, _jet_ctx,
                 initial_cut, best_cut, cur_fruitless_iteration, _snapshooter,
                 jet_return>>

\* The end of a pass: _snapshooter.update, the two counters, best_cut and the
\* loop condition.
REF_EndOfPass ==
  LET final_cut == JET_EdgeCut
      improved == REF_Improved(best_cut, final_cut, _jet_ctx.fruitless_threshold)
      fruitless == IF improved THEN 0 ELSE cur_fruitless_iteration + 1
  IN  /\ \A pe \in JET_PEs : jet_pc[pe] = "update"
      /\ _snapshooter' = [pe \in JET_PEs |->
           IF REF_SnapshotBetter(final_cut, _snapshooter[pe].cut)
           THEN [block |-> jet_block[pe], block_weight |-> jet_block_weight[pe],
                 cut |-> final_cut]
           ELSE _snapshooter[pe]]
      /\ jet_iter' = jet_iter + 1
      /\ cur_fruitless_iteration' = fruitless
      /\ best_cut' = IF improved THEN final_cut ELSE best_cut
      /\ ref_hist' = [ref_hist EXCEPT !.last_cut = final_cut]
      /\ jet_pc' = [pe \in JET_PEs |->
           IF REF_Continues(jet_iter + 1, fruitless) THEN "find_moves"
           ELSE "rollback"]
      /\ UNCHANGED <<jetGraph, jet_move, jet_block, jet_block_weight,
                     _gains_and_targets, _locked, _block_weight_deltas,
                     _penalty_factor, _jet_ctx, initial_cut, jet_return>>

\* _snapshooter.rollback(_p_graph) and the return
REF_Rollback(pe) ==
  /\ jet_pc[pe] = "rollback"
  /\ jet_block' = [jet_block EXCEPT ![pe] = _snapshooter[pe].block]
  /\ jet_block_weight' = [jet_block_weight EXCEPT ![pe] = _snapshooter[pe].block_weight]
  /\ jet_return' = REF_ReturnValue
  /\ jet_pc' = [jet_pc EXCEPT ![pe] = "done"]
  /\ UNCHANGED <<jetGraph, jet_move, _gains_and_targets, _locked,
                 _block_weight_deltas, _penalty_factor, jet_iter, _jet_ctx,
                 initial_cut, best_cut, cur_fruitless_iteration, _snapshooter,
                 ref_hist>>

InitRefine == REF_Init /\ CCV_Idle /\ GC_Idle /\ CO_Idle /\ LP_Idle /\ FRA_Idle /\ CG_Idle /\ MSB_Idle /\ LPR_Idle /\ BLD_Idle /\ POOL_Idle /\ SEQ_Idle /\ FA_Idle

NextRefine ==
  \/ \E pe \in JET_PEs : REF_Initialize(pe) /\ UNCHANGED notRefVars
  \/ REF_Enter /\ UNCHANGED notRefVars
  \/ \E pe \in JET_PEs : JET_FindMoves(pe) /\ UNCHANGED <<notRefVars, refVars>>
  \/ JET_SynchronizeGhostNodeMoveCandidates /\ UNCHANGED <<notRefVars, refVars>>
  \/ \E pe \in JET_PEs : JET_FilterBadMoves(pe) /\ UNCHANGED <<notRefVars, refVars>>
  \/ \E pe \in JET_PEs : JET_MoveLockedNodes(pe) /\ UNCHANGED <<notRefVars, refVars>>
  \/ JET_SynchronizeGhostNodeLabels /\ UNCHANGED <<notRefVars, refVars>>
  \/ REF_ApplyBlockWeightDeltas /\ UNCHANGED notRefVars
  \/ REF_Rebalance /\ UNCHANGED notRefVars
  \/ REF_EndOfPass /\ UNCHANGED notRefVars
  \/ \E pe \in JET_PEs : REF_Rollback(pe) /\ UNCHANGED notRefVars

SpecRefine == InitRefine /\ [][NextRefine]_vars

\* refine() has returned on every PE.
REF_Returned == \A pe \in JET_PEs : jet_pc[pe] = "done"

(***************************************************************************)
(* Claims about refine()                                                   *)
(***************************************************************************)
\* C13: refine() returns true if and only if the edge cut of the partition
\* in place after the rollback is strictly smaller than the edge cut at
\* entry, for every fruitless_threshold in [0, 1].
C13_ReturnsTrueIffCutDecreased ==
  REF_Returned => (jet_return = "true" <=> JET_EdgeCut < initial_cut)

\* refine() returns true only if the cut decreased, and with a
\* fruitless_threshold of 1 it returns true whenever it did.
C13_TrueOnlyIfCutDecreased ==
  REF_Returned =>
    /\ jet_return = "true" => JET_EdgeCut < initial_cut
    /\ _jet_ctx.fruitless_threshold = <<1, 1>> =>
         (jet_return = "true" <=> JET_EdgeCut < initial_cut)

\* C14: the edge cut of the partition refine() leaves after its rollback is
\* less than or equal to the edge cut at entry, which is the cut of the
\* partition initialize() saw, whatever the passes and the balancer did.
C14_MonotoneSnapshot ==
  REF_Returned =>
    /\ JET_EdgeCut <= initial_cut
    /\ \A pe \in JET_PEs : _snapshooter[pe].cut = JET_EdgeCut

\* C14 witness: the balancer moved a node, the last pass left a cut above
\* the one at entry, and refine() has rolled it back.
C14_Witness ==
  /\ REF_Returned
  /\ ref_hist.balanced
  /\ ref_hist.last_cut > initial_cut
  /\ JET_EdgeCut <= initial_cut

\* The scheduler lets every PE that can take a step take one.
FairSpecRefine == SpecRefine /\ WF_vars(NextRefine)

\* C15: refine() returns only after at least one pass; the pass that ends
\* makes cur_fruitless_iteration 0 if its cut is below best_cut by more than
\* (1 - fruitless_threshold) * best_cut and adds one to it otherwise; the
\* loop is left after that pass iff cur_iteration has reached a non-zero
\* num_iterations or cur_fruitless_iteration a non-zero
\* num_fruitless_iterations; and if one of the two limits is not zero,
\* refine() returns.
C15_StoppingRule ==
  /\ []((jet_return # "none" \/ \E pe \in JET_PEs : jet_pc[pe] = "rollback")
          => jet_iter >= 1)
  /\ [][jet_iter' = jet_iter + 1 =>
          LET threshold == _jet_ctx.fruitless_threshold
              below == threshold[2] * (best_cut - JET_EdgeCut) >
                         (threshold[2] - threshold[1]) * best_cut
              stops == \/ /\ _jet_ctx.num_iterations # 0
                          /\ jet_iter' >= _jet_ctx.num_iterations
                       \/ /\ _jet_ctx.num_fruitless_iterations # 0
                          /\ cur_fruitless_iteration' >=
                               _jet_ctx.num_fruitless_iterations
          IN  /\ cur_fruitless_iteration' =
                   IF below THEN 0 ELSE cur_fruitless_iteration + 1
              /\ \A pe \in JET_PEs :
                   jet_pc'[pe] = IF stops THEN "rollback" ELSE "find_moves"]_vars
  /\ (_jet_ctx.num_iterations # 0 \/ _jet_ctx.num_fruitless_iterations # 0)
       => <>REF_Returned

\* C15 witness: with num_iterations = 0 a pass reset the fruitless counter,
\* a later pass was fruitless, and refine() has returned.
C15_Witness ==
  /\ REF_Returned
  /\ _jet_ctx.num_iterations = 0
  /\ _jet_ctx.num_fruitless_iterations = 1
  /\ jet_iter >= 2
  /\ best_cut < initial_cut

(***************************************************************************)
(* Scenario: the path of 6 vertices                                        *)
(***************************************************************************)
\* The unit-weight path 0-1-2-3-4-5
REF_Path6 ==
  [u \in 0..5 |-> IF u = 0 THEN <<<<1, 1>>>>
                  ELSE IF u = 5 THEN <<<<4, 1>>>>
                  ELSE <<<<u - 1, 1>>, <<u + 1, 1>>>>]

\* {0,2,4} | {1,3,5}
REF_Path6Partition == [u \in 0..5 |-> u % 2]

\* The refiner is constructed on one PE for the path of 6 and its alternating
\* partition, with k = 2 (a further block stays empty), epsilon = 0 and three
\* passes.
REF_InitPath6 ==
  /\ jet_graph = REF_Path6
  /\ jet_dist = <<0, 6>>
  /\ _ghost_to_global = [pe \in JET_PEs |-> JET_BuildGhostToGlobal(pe)]
  /\ jet_node_weight = [u \in 0..5 |-> 1]
  /\ jet_block = [pe \in JET_PEs |->
       [u \in JET_AllNodes(pe) |-> REF_Path6Partition[JET_LocalToGlobal(pe, u)]]]
  /\ jet_block_weight = [pe \in JET_PEs |->
       [b \in JET_Blocks |-> JET_BlockWeight(REF_Path6Partition, b)]]
  /\ \E junk \in {0, 1} :
       /\ _gains_and_targets = [pe \in JET_PEs |->
            [u \in JET_AllNodes(pe) |-> <<5 * junk, 0>>]]
       /\ _locked = [pe \in JET_PEs |-> [u \in JET_OwnedNodes(pe) |-> junk]]
       /\ _block_weight_deltas = [pe \in JET_PEs |-> [b \in JET_Blocks |-> 3 * junk]]
  /\ _penalty_factor = [pe \in JET_PEs |-> <<0, 1>>]
  /\ jet_pc = [pe \in JET_PEs |-> "initialize"]
  /\ jet_move = [pe \in JET_PEs |-> [u \in JET_OwnedNodes(pe) |-> JET_NotMoved]]
  /\ jet_iter = 0
  /\ \E threshold \in REF_Thresholds :
       _jet_ctx = [num_iterations |-> 3, num_fruitless_iterations |-> 0,
                   fruitless_threshold |-> threshold, max_block_weight |-> 3]
  /\ initial_cut = 0
  /\ best_cut = 0
  /\ cur_fruitless_iteration = 0
  /\ _snapshooter = [pe \in JET_PEs |->
       [block |-> [u \in JET_AllNodes(pe) |-> 0],
        block_weight |-> [b \in JET_Blocks |-> 0], cut |-> 0]]
  /\ jet_return = "none"
  /\ ref_hist = [last_cut |-> 0, balanced |-> FALSE]

InitPath6 == REF_InitPath6 /\ CCV_Idle /\ GC_Idle /\ CO_Idle /\ LP_Idle /\ FRA_Idle /\ CG_Idle /\ MSB_Idle /\ LPR_Idle /\ BLD_Idle /\ POOL_Idle /\ SEQ_Idle /\ FA_Idle

SpecPath6 == InitPath6 /\ [][NextRefine]_vars

\* C16: on the path of 6 with k = 2, started on one PE from {0,2,4}|{1,3,5},
\* the cut is 5 until the first pass moves nodes, and after three passes the
\* partition has cut 1.
C16_PathOfSix ==
  /\ (jet_iter = 0 /\ \A pe \in JET_PEs : jet_pc[pe] # "move_locked_nodes"
        /\ jet_pc[pe] # "synchronize_labels"
        /\ jet_pc[pe] # "apply_block_weight_deltas"
        /\ jet_pc[pe] # "rebalance" /\ jet_pc[pe] # "update")
       => JET_EdgeCut = 5
  /\ jet_iter >= 3 => JET_EdgeCut = 1

\* C16 witness: three passes were made and left {0,1,2}|{3,4,5}.
C16_Witness ==
  /\ jet_iter = 3
  /\ REF_Returned
  /\ jet_block[0] = [u \in 0..5 |-> IF u < 3 THEN 0 ELSE 1]

(***************************************************************************)
(* LabelPropagationRefiner (parallel_label_propagation_refiner.h)          *)
(***************************************************************************)
LP_MaxNodeWeight == 2
LP_MaxBlockWeight == 3

\* num_clusters(): the blocks of _p_graph
LP_Blocks == 0..(NumBlocks - 1)

\* Ratings of the candidate blocks of a node
LP_Gains == 0..1

\* max_cluster_weight(block)
LP_MaxClusterWeight(block) == lp_max_block_weight[block]

\* accept_cluster(state); random_bool is what state.local_rand.random_bool()
\* returns when it is asked
LP_AcceptCluster(state, random_bool) ==
  LET current_max_weight == LP_MaxClusterWeight(state.current_cluster)
      best_overload ==
        state.best_cluster_weight - LP_MaxClusterWeight(state.best_cluster)
      current_overload == state.current_cluster_weight - current_max_weight
      initial_overload ==
        state.initial_cluster_weight - LP_MaxClusterWeight(state.initial_cluster)
  IN  /\ \/ state.current_gain > state.best_gain
         \/ /\ state.current_gain = state.best_gain
            /\ \/ current_overload < best_overload
               \/ (current_overload = best_overload /\ random_bool)
      /\ \/ state.current_cluster_weight + state.u_weight < current_max_weight
         \/ current_overload < initial_overload
         \/ state.current_cluster = state.initial_cluster

\* A partitioned graph is handed to refine(): block weights of a partition,
\* feasible or not, and the maximum block weights of the partition context.
LP_Init ==
  /\ lp_block_weight \in [LP_Blocks -> 0..(LP_MaxBlockWeight + 1)]
  /\ lp_max_block_weight \in
       [LP_Blocks -> (LP_MaxBlockWeight - 1)..LP_MaxBlockWeight]
  /\ lp_state = <<>>
  /\ lp_tried = {}
  /\ lp_accepted = "none"

\* The next node u is taken up: it lies in initial_cluster, which is the best
\* cluster so far, with gain 0.
LP_SelectNode ==
  /\ lp_state = <<>>
  /\ \E initial \in LP_Blocks, u_weight \in 1..LP_MaxNodeWeight :
       /\ u_weight <= lp_block_weight[initial]
       /\ lp_state' =
            [u_weight |-> u_weight,
             initial_cluster |-> initial,
             initial_cluster_weight |-> lp_block_weight[initial],
             best_cluster |-> initial,
             best_gain |-> 0,
             best_cluster_weight |-> lp_block_weight[initial],
             current_cluster |-> 0,
             current_gain |-> 0,
             current_cluster_weight |-> 0]
  /\ lp_tried' = {}
  /\ lp_accepted' = "none"
  /\ UNCHANGED <<lp_block_weight, lp_max_block_weight>>

\* The next entry of the rating map is offered to accept_cluster and becomes
\* the best cluster if it is accepted.
LP_TryCluster ==
  /\ lp_state # <<>>
  /\ \E cluster \in LP_Blocks \ lp_tried, gain \in LP_Gains,
        random_bool \in BOOLEAN :
       LET state == [lp_state EXCEPT
                       !.current_cluster = cluster,
                       !.current_gain = gain,
                       !.current_cluster_weight = lp_block_weight[cluster]]
       IN  /\ lp_tried' = lp_tried \cup {cluster}
           /\ IF LP_AcceptCluster(state, random_bool)
              THEN /\ lp_accepted' = "true"
                   /\ lp_state' = [state EXCEPT
                        !.best_cluster = state.current_cluster,
                        !.best_gain = state.current_gain,
                        !.best_cluster_weight = state.current_cluster_weight]
              ELSE /\ lp_accepted' = "false"
                   /\ lp_state' = state
  /\ UNCHANGED <<lp_block_weight, lp_max_block_weight>>

\* The node is moved to the best cluster if that is another one and the hard
\* weight constraint lets it in.
LP_MoveNode ==
  /\ lp_state # <<>>
  /\ LET from == lp_state.initial_cluster
         to == lp_state.best_cluster
         w == lp_state.u_weight
     IN  IF to # from /\ lp_block_weight[to] + w <= LP_MaxClusterWeight(to)
         THEN lp_block_weight' = [lp_block_weight EXCEPT
                ![from] = @ - w, ![to] = @ + w]
         ELSE UNCHANGED lp_block_weight
  /\ lp_state' = <<>>
  /\ lp_tried' = {}
  /\ lp_accepted' = "none"
  /\ UNCHANGED lp_max_block_weight

InitLP == LP_Init /\ CCV_Idle /\ GC_Idle /\ JET_Idle /\ CO_Idle /\ REF_Idle /\ FRA_Idle /\ CG_Idle /\ MSB_Idle /\ LPR_Idle /\ BLD_Idle /\ POOL_Idle /\ SEQ_Idle /\ FA_Idle

NextLP ==
  \/ LP_SelectNode /\ UNCHANGED notLpVars
  \/ LP_TryCluster /\ UNCHANGED notLpVars
  \/ LP_MoveNode /\ UNCHANGED notLpVars

SpecLP == InitLP /\ [][NextLP]_vars

\* C20: a candidate block whose weight plus the weight of u exceeds its
\* maximum is accepted only if it is the initial block of u or the initial
\* block is overloaded (the move then takes u's weight off that overload).
C20_RefusesOverCap ==
  (/\ lp_accepted = "true"
   /\ lp_state.current_cluster_weight + lp_state.u_weight
        > LP_MaxClusterWeight(lp_state.current_cluster))
    => \/ lp_state.current_cluster = lp_state.initial_cluster
       \/ lp_state.initial_cluster_weight
            > LP_MaxClusterWeight(lp_state.initial_cluster)

\* C20, for nodes of unit weight: the refusal is as stated.
C20_RefusesOverCapUnitWeight ==
  (/\ lp_accepted = "true"
   /\ lp_state.u_weight = 1
   /\ lp_state.current_cluster_weight + lp_state.u_weight
        > LP_MaxClusterWeight(lp_state.current_cluster))
    => \/ lp_state.current_cluster = lp_state.initial_cluster
       \/ lp_state.initial_cluster_weight
            > LP_MaxClusterWeight(lp_state.initial_cluster)

(***************************************************************************)
(* The phases of a JET pass                                                *)
(***************************************************************************)
\* C27: after find_moves of a PE, every owned node u in block a holds, for
\* one of its max gainers (b*, int_degree, ext_degree), the proposal
\* (ext_degree - int_degree, b*) if u is not locked, b* # a and
\* (ext_degree > int_degree or ext_degree - int_degree >=
\* -floor(penalty * int_degree)), and (0, a) otherwise.
C27_FindMovesProposals ==
  \A pe \in JET_PEs :
    jet_pc[pe] \in {"synchronize_candidates", "filter_bad_moves"} =>
      \A u \in JET_OwnedNodes(pe) :
        \E b \in JET_MaxGainerBlocks(pe, u) :
          LET a == jet_block[pe][u]
              int_degree == JET_Conn(pe, u, a)
              ext_degree == IF b = a THEN 0 ELSE JET_Conn(pe, u, b)
              penalty == _penalty_factor[pe]
          IN  IF /\ _locked[pe][u] = 0
                 /\ b # a
                 /\ \/ ext_degree > int_degree
                    \/ (ext_degree - int_degree) * penalty[2]
                         >= -(penalty[1] * int_degree)
                              + ((penalty[1] * int_degree) % penalty[2])
              THEN _gains_and_targets[pe][u] = <<ext_degree - int_degree, b>>
              ELSE _gains_and_targets[pe][u] = <<0, a>>

\* C27 witness: find_moves has stored a proposal of gain 0, which only the
\* penalty term admits, and (0, a) for another node of the PE.
C27_Witness ==
  \E pe \in JET_PEs :
    /\ jet_pc[pe] = "synchronize_candidates"
    /\ \E u \in JET_OwnedNodes(pe) :
         /\ _gains_and_targets[pe][u][2] # jet_block[pe][u]
         /\ _gains_and_targets[pe][u][1] = 0
    /\ \E u \in JET_OwnedNodes(pe) :
         _gains_and_targets[pe][u] = <<0, jet_block[pe][u]>>

C29_LockedForOnePass ==
  [][\A pe \in JET_PEs :
       /\ _locked'[pe] # _locked[pe] =>
            jet_pc[pe] \in {"initialize", "filter_bad_moves"}
       /\ jet_pc[pe] = "move_locked_nodes" =>
            \A u \in JET_OwnedNodes(pe) :
              /\ jet_block'[pe][u] # jet_block[pe][u] => _locked[pe][u] # 0
              /\ (jet_pc'[pe] # jet_pc[pe] /\ _locked[pe][u] # 0) =>
                   jet_block[pe][u] = _gains_and_targets[pe][u][2]
       /\ (jet_pc[pe] = "find_moves" /\ jet_pc'[pe] # jet_pc[pe]) =>
            \A u \in JET_OwnedNodes(pe) :
              _locked[pe][u] # 0 =>
                _gains_and_targets'[pe][u] = <<0, jet_block[pe][u]>>
       /\ (jet_pc[pe] = "filter_bad_moves" /\ jet_pc'[pe] # jet_pc[pe]) =>
            \A u \in JET_OwnedNodes(pe) :
              _locked[pe][u] # 0 => _locked'[pe][u] = 0
    ]_vars

\* C29 witness: on the path of 6, node 2 was moved to block 1 in the first
\* pass, stayed there in the second, and the third pass has moved it back.
C29_Witness ==
  /\ jet_graph = REF_Path6
  /\ jet_iter = 2
  /\ jet_pc[0] = "synchronize_labels"
  /\ _locked[0][2] = 1
  /\ jet_block[0][2] = 0

\* C30: after initialize() no owned node is locked, every block weight
\* delta is 0 and every owned and ghost node holds (0, block(u)), so the
\* entry assertion of a refine() that follows holds.
C30_InitializeResets ==
  \A pe \in JET_PEs :
    jet_pc[pe] = "refine" =>
      /\ \A u \in JET_OwnedNodes(pe) : _locked[pe][u] = 0
      /\ \A b \in JET_Blocks : _block_weight_deltas[pe][b] = 0
      /\ \A u \in JET_AllNodes(pe) :
           _gains_and_targets[pe][u] = <<0, jet_block[pe][u]>>

\* C30 witness: the arrays held other values when the refiner was
\* constructed, a PE with a ghost node has run initialize() and refine() is
\* about to be entered.
C30_Witness ==
  /\ \A pe \in JET_PEs : jet_pc[pe] = "refine"
  /\ \E pe \in JET_PEs : JET_GhostNodes(pe) # {}
  /\ \A pe \in JET_PEs : \A u \in JET_OwnedNodes(pe) : _locked[pe][u] = 0

(***************************************************************************)
(* The circular vector with stores that are not ordered with each other    *)
(***************************************************************************)
\* As SpecCCV (at most `size` tasks, deltas that fit), and the two relaxed
\* stores of a call become visible to the other threads in either order.
NextCCVRelaxed ==
  \/ \E d \in 0..MaxDelta : CCV_Next(d, TRUE) /\ UNCHANGED notCcvVars
  \/ \E e \in CCV_Tickets : CCV_Load(e) /\ UNCHANGED notCcvVars
  \/ \E e \in CCV_Tickets : CCV_StorePrev(e) /\ UNCHANGED notCcvVars
  \/ \E e \in CCV_Tickets : CCV_StorePos(e) /\ UNCHANGED notCcvVars
  \/ \E e \in CCV_Tickets : CCV_StorePosFirst(e) /\ UNCHANGED notCcvVars
  \/ \E e \in CCV_Tickets : CCV_StorePrevLate(e) /\ UNCHANGED notCcvVars

SpecCCVRelaxed == InitCCV /\ [][NextCCVRelaxed]_vars

\* C26: with at most `size` tasks, the call for ticket t+1 reads the value
\* the call for ticket t stored (and no call reads a slot before the call
\* for the ticket before it has stored there); a value is stored only into
\* a slot that holds the sentinel; and the sentinel a call stores replaces
\* the value that call read, never a value stored there later.
C26_OneProducerOneConsumer ==
  [][\A e \in CCV_Tickets :
       LET stored(t) == ccv_pc[t] \in {"store_prev_late", "returned"}
           pos == CCV_Pos(e, ccv_size)
           prev_pos == CCV_PrevPos(e, ccv_size)
       IN  /\ (ccv_pc[e] = "load" /\ ccv_pc'[e] = "store_prev" /\ e > 0) =>
                /\ stored(e - 1)
                /\ ccv_value'[e] =
                     CCV_NewValue(ccv_value[e - 1], ccv_delta[e - 1])
           /\ (ccv_pc[e] \in {"store_prev", "store_pos"}
                 /\ ccv_pc'[e] \in {"store_prev_late", "returned"}) =>
                _buffer[pos] = kLock
           /\ (ccv_pc[e] \in {"store_prev", "store_prev_late"}
                 /\ ccv_pc'[e] \in {"store_pos", "returned"}) =>
                \A t \in CCV_Tickets :
                  (t > e /\ CCV_Pos(t, ccv_size) = prev_pos) => ~stored(t)
    ]_vars

\* C26, the state the reordered stores lead to: a call has stored its value
\* and returned, the sentinel of an earlier call has since replaced that
\* value, and the call for the next ticket finds the sentinel.
C26_ValueLost ==
  \E e \in CCV_Tickets :
    /\ e + 1 \in CCV_Tickets
    /\ ccv_pc[e] = "returned"
    /\ ccv_pc[e + 1] = "load"
    /\ \A t \in CCV_Tickets : ccv_pc[t] \in {"load", "returned", "none"}
    /\ _buffer[CCV_Pos(e, ccv_size)] = kLock

(***************************************************************************)
(* ConcurrentFastResetArray (concurrent_fast_reset_array.h)                *)
(***************************************************************************)
CFRA_Capacity == 3

\* The positions of _data and the values stored; Value() is 0.
CFRA_Positions == 0..(CFRA_Capacity - 1)
CFRA_Values == 0..2

\* The lists a caller passes to set_used_entries: positions in any order, a
\* position possibly twice.
CFRA_UsedLists ==
  {<<>>} \cup {<<p>> : p \in CFRA_Positions}
         \cup {<<p, q>> : p \in CFRA_Positions, q \in CFRA_Positions}

\* ConcurrentFastResetArray(capacity): _data(capacity), _used_entries empty
CFRA_Init ==
  /\ _data = [pos \in CFRA_Positions |-> 0]
  /\ _used_entries = <<>>
  /\ fra_last = [op |-> "none"]

\* operator[](pos) returns a reference to _data[pos], which the caller
\* assigns through.
CFRA_Write(pos, value) ==
  /\ pos < CFRA_Capacity
  /\ _data' = [_data EXCEPT ![pos] = value]
  /\ fra_last' = [op |-> "operator[]", data |-> _data, used |-> _used_entries]
  /\ UNCHANGED _used_entries

\* set_used_entries(used_entries)
CFRA_SetUsedEntries(used_entries) ==
  /\ _used_entries' = used_entries
  /\ fra_last' = [op |-> "set_used_entries", data |-> _data, used |-> _used_entries]
  /\ UNCHANGED _data

\* (variant: clear() resets the whole array)
CFRA_ClearAll ==
  /\ _data' = [pos \in CFRA_Positions |-> 0]
  /\ _used_entries' = <<>>
  /\ fra_last' = [op |-> "clear", data |-> _data, used |-> _used_entries]

\* clear(): _data[pos] = Value() for every pos of _used_entries, then
\* _used_entries.clear()
CFRA_Clear ==
  /\ _data' = [pos \in CFRA_Positions |->
       IF \E i \in 1..Len(_used_entries) : _used_entries[i] = pos
       THEN 0 ELSE _data[pos]]
  /\ _used_entries' = <<>>
  /\ fra_last' = [op |-> "clear", data |-> _data, used |-> _used_entries]

InitCFRA ==
  /\ CFRA_Init
  /\ CCV_Idle /\ GC_Idle /\ JET_Idle /\ CO_Idle /\ REF_Idle /\ LP_Idle /\ CG_Idle /\ MSB_Idle /\ LPR_Idle /\ BLD_Idle /\ POOL_Idle /\ SEQ_Idle /\ FA_Idle

NextCFRA ==
  \/ \E pos \in CFRA_Positions, value \in CFRA_Values :
       CFRA_Write(pos, value) /\ UNCHANGED notFraVars
  \/ \E used_entries \in CFRA_UsedLists :
       CFRA_SetUsedEntries(used_entries) /\ UNCHANGED notFraVars
  \/ CFRA_Clear /\ UNCHANGED notFraVars

SpecCFRA == InitCFRA /\ [][NextCFRA]_vars

CG_MaxNodes == 3        \* nodes stored in a graph
CG_DegreeBits == 2      \* digits of the degree type: degrees are below 2^2
CG_MaxNodeWeight == 2   \* largest weight of a node
CG_NodeIDBits == 4      \* width of NodeID, the type of the bucket entries

CG_NodeIDMod == 2 ^ CG_NodeIDBits

\* kNumberOfDegreeBuckets<NodeID>: one bucket for every digit and one for
\* the isolated nodes.
kNumberOfDegreeBuckets == CG_DegreeBits + 1

\* The bucket of a degree: bucket b holds the degrees in [2^b, 2^(b+1)), the
\* isolated nodes are in bucket 0.
RECURSIVE degree_bucket(_)
degree_bucket(degree) == IF degree <= 1 THEN 0 ELSE 1 + degree_bucket(degree \div 2)

\* The degree sequences of sorted graphs: buckets ascend over the nodes that
\* have neighbours, the isolated nodes come last.
CG_SortedDegrees ==
  LET Degrees == 0..(2 ^ CG_DegreeBits - 1)
      Sorted(d) ==
        \A u \in 1..(Len(d) - 1) :
          \/ d[u + 1] = 0
          \/ d[u] > 0 /\ degree_bucket(d[u]) <= degree_bucket(d[u + 1])
  IN  UNION {{d \in [1..n -> Degrees] : Sorted(d)} : n \in 1..CG_MaxNodes}

\* The node weights of a graph of n nodes: none, or one per node, each node
\* light or heavy.
CG_NodeWeights(n) == {<<>>} \cup [1..n -> {1, CG_MaxNodeWeight}]

\* init_degree_buckets() of a sorted graph: the histogram of the buckets,
\* shifted by one, the index of its last nonempty entry, its prefix sums.
CG_InitDegreeBuckets(degree, n) ==
  LET count(i) == IF i = 0 THEN 0
                  ELSE Cardinality({u \in 1..n : degree_bucket(degree[u]) + 1 = i})
      histogram == [i \in 0..kNumberOfDegreeBuckets |-> count(i)]
      last_nonempty_bucket ==
        CHOOSE i \in 0..kNumberOfDegreeBuckets :
          /\ histogram[i] > 0
          /\ \A j \in (i + 1)..kNumberOfDegreeBuckets : histogram[j] = 0
  IN  [buckets |-> [i \in 0..kNumberOfDegreeBuckets |-> SumTo(histogram, i + 1)],
       number_of_buckets |-> last_nonempty_bucket]

\* update_total_node_weight(): over the node weights the array is restricted
\* to; n and 1 when that array is empty.
CG_UpdateTotalNodeWeight(node_weights, size, n) ==
  IF size = 0
    THEN [total_node_weight |-> n, max_node_weight |-> 1]
    ELSE [total_node_weight |-> SumTo([u \in 0..(size - 1) |-> node_weights[u + 1]], size),
          max_node_weight |-> CHOOSE w \in {node_weights[u] : u \in 1..size} :
                                \A u \in 1..size : node_weights[u] <= w]

\* What remove_isolated_nodes keeps of the state it is called in.
CG_Observed ==
  [n |-> cg_n, total_node_weight |-> _total_node_weight,
   max_node_weight |-> _max_node_weight, buckets |-> _buckets,
   number_of_buckets |-> _number_of_buckets]

\* CompressedGraph(...): the weights are summed up and the buckets computed.
CG_Init ==
  \E degree \in CG_SortedDegrees :
    \E node_weights \in CG_NodeWeights(Len(degree)) :
      LET db == CG_InitDegreeBuckets(degree, Len(degree))
          tw == CG_UpdateTotalNodeWeight(node_weights, Len(node_weights), Len(degree))
      IN  /\ cg_degree = degree
          /\ _node_weights = node_weights
          /\ cg_n = Len(degree)
          /\ cg_weights_size = Len(node_weights)
          /\ _buckets = db.buckets
          /\ _number_of_buckets = db.number_of_buckets
          /\ _total_node_weight = tw.total_node_weight
          /\ _max_node_weight = tw.max_node_weight
          /\ cg_pc = "constructed"
          /\ cg_last = [isolated_nodes |-> 0]

\* remove_isolated_nodes(isolated_nodes)
CG_RemoveIsolatedNodes(isolated_nodes) ==
  /\ cg_pc \in {"constructed", "integrated"}
  /\ isolated_nodes <= cg_n
  /\ cg_pc' = "removed"
  /\ cg_last' = [isolated_nodes |-> isolated_nodes, before |-> CG_Observed]
  /\ IF isolated_nodes = 0
       THEN UNCHANGED <<cg_n, cg_weights_size, _buckets, _number_of_buckets,
                        _total_node_weight, _max_node_weight>>
       ELSE LET new_n == cg_n - isolated_nodes
                size == IF cg_weights_size # 0 THEN new_n ELSE cg_weights_size
                tw == CG_UpdateTotalNodeWeight(_node_weights, size, new_n)
            IN  /\ cg_n' = new_n
                /\ cg_weights_size' = size
                /\ _total_node_weight' = tw.total_node_weight
                /\ _max_node_weight' = tw.max_node_weight
                /\ _buckets' = [i \in DOMAIN _buckets |->
                                  IF i >= 1
                                    THEN (_buckets[i] - isolated_nodes) % CG_NodeIDMod
                                    ELSE _buckets[i]]
                /\ _number_of_buckets' =
                     IF _number_of_buckets = 1 THEN 0 ELSE _number_of_buckets
  /\ UNCHANGED <<cg_degree, _node_weights>>

\* integrate_isolated_nodes() without the last step, which brings the one
\* bucket back
CG_IntegrateKeepingNumberOfBuckets ==
  /\ cg_pc = "removed"
  /\ LET nonisolated_nodes == cg_n
         n == Len(cg_degree)
         isolated_nodes == n - nonisolated_nodes
         tw == CG_UpdateTotalNodeWeight(_node_weights, Len(_node_weights), n)
     IN  /\ cg_n' = n
         /\ cg_weights_size' = Len(_node_weights)
         /\ _total_node_weight' = tw.total_node_weight
         /\ _max_node_weight' = tw.max_node_weight
         /\ _buckets' = [i \in DOMAIN _buckets |->
                           IF i >= 1
                             THEN (_buckets[i] + isolated_nodes) % CG_NodeIDMod
                             ELSE _buckets[i]]
         /\ UNCHANGED _number_of_buckets
  /\ cg_pc' = "integrated"
  /\ UNCHANGED <<cg_degree, _node_weights, cg_last>>

\* integrate_isolated_nodes(): both arrays get their stored size back
CG_IntegrateIsolatedNodes ==
  /\ cg_pc = "removed"
  /\ LET nonisolated_nodes == cg_n
         n == Len(cg_degree)
         isolated_nodes == n - nonisolated_nodes
         tw == CG_UpdateTotalNodeWeight(_node_weights, Len(_node_weights), n)
     IN  /\ cg_n' = n
         /\ cg_weights_size' = Len(_node_weights)
         /\ _total_node_weight' = tw.total_node_weight
         /\ _max_node_weight' = tw.max_node_weight
         /\ _buckets' = [i \in DOMAIN _buckets |->
                           IF i >= 1
                             THEN (_buckets[i] + isolated_nodes) % CG_NodeIDMod
                             ELSE _buckets[i]]
         /\ _number_of_buckets' =
              IF _number_of_buckets = 0 THEN 1 ELSE _number_of_buckets
  /\ cg_pc' = "integrated"
  /\ UNCHANGED <<cg_degree, _node_weights, cg_last>>

InitCG ==
  /\ CG_Init
  /\ CCV_Idle /\ GC_Idle /\ JET_Idle /\ CO_Idle /\ REF_Idle /\ LP_Idle /\ FRA_Idle /\ MSB_Idle /\ LPR_Idle /\ BLD_Idle /\ POOL_Idle /\ SEQ_Idle /\ FA_Idle

NextCG ==
  \/ \E isolated_nodes \in 0..CG_MaxNodes :
       CG_RemoveIsolatedNodes(isolated_nodes) /\ UNCHANGED notCgVars
  \/ CG_IntegrateIsolatedNodes /\ UNCHANGED notCgVars

SpecCG == InitCG /\ [][NextCG]_vars

\* C24: on a sorted graph, for every k up to the number of isolated nodes,
\* after remove_isolated_nodes(k) n is lower by k, every bucket prefix sum
\* after the first is lower by k and total_node_weight is the sum of the
\* weights of the nodes that remain (n when the graph has no weights); after
\* integrate_isolated_nodes() n, the total and the maximum node weight,
\* every bucket prefix sum and the number of buckets are what they were
\* before the removal.
C24_RemoveIntegrateRoundTrip ==
  LET k == cg_last.isolated_nodes
      isolated == Cardinality({u \in 1..Len(cg_degree) : cg_degree[u] = 0})
      before == cg_last.before
      remaining == [u \in 0..(cg_n - 1) |-> _node_weights[u + 1]]
  IN  /\ (cg_pc = "removed" /\ k <= isolated) =>
           /\ cg_n = before.n - k
           /\ \A i \in 1..kNumberOfDegreeBuckets :
                _buckets[i] = before.buckets[i] - k
           /\ _total_node_weight =
                IF _node_weights = <<>> THEN cg_n ELSE SumTo(remaining, cg_n)
      /\ (cg_pc = "integrated" /\ k <= isolated) => CG_Observed = before

C24_Witness ==
  /\ cg_pc = "integrated"
  /\ cg_last.isolated_nodes >= 1
  /\ cg_last.isolated_nodes = Cardinality({u \in 1..Len(cg_degree) : cg_degree[u] = 0})
  /\ cg_last.isolated_nodes < Len(cg_degree)
  /\ _node_weights # <<>>
  /\ \E u \in 1..Len(_node_weights) : _node_weights[u] # _node_weights[1]

(***************************************************************************)
(* MoveSetBuilder, build_greedy_move_sets                                  *)
(* (dkaminpar/refinement/balancer/move_sets.cc)                            *)
(***************************************************************************)
MSB_MaxNodes == 3        \* n of the partitioned graph
MSB_MaxNodeWeight == 2   \* largest weight of a node
MSB_MaxSetWeight == 4    \* largest max_move_set_weight passed in

\* The largest values of NodeID and BlockID.
kInvalidNodeID == CG_NodeIDMod - 1
kInvalidBlockID == CG_NodeIDMod - 1

MSB_Nodes == 0..(MSB_MaxNodes - 1)
MSB_Blocks == {0, 1}

\* What peek_key() of a heap without elements may return.
MSB_GarbageKeys == {-1, 0, 1}

\* The partitioned graphs and limits the builder is run on: the nodes all
\* owned, some of the edges {u, u + 1}, all of weight 1, the nodes light or
\* heavy, a block overloaded as soon as it has a node or never.
MSB_Inputs ==
  [edges : SUBSET {{u, u + 1} : u \in 0..(MSB_MaxNodes - 2)},
   node_weight : [MSB_Nodes -> {1, MSB_MaxNodeWeight}],
   block : [MSB_Nodes -> MSB_Blocks],
   max_block_weight : [MSB_Blocks -> {0, MSB_MaxNodes * MSB_MaxNodeWeight}],
   max_move_set_weight : 0..MSB_MaxSetWeight]

\* _p_graph.neighbors(u), _p_graph.block_weight(b)
MSB_Neighbors(u) == {v \in MSB_Nodes : {u, v} \in msb_graph.edges /\ v # u}
MSB_BlockWeight(b) ==
  SumTo([u \in MSB_Nodes |-> IF msb_graph.block[u] = b
                               THEN msb_graph.node_weight[u] ELSE 0],
        MSB_MaxNodes)

\* MoveSetBuilder(p_graph, p_ctx): the arrays are sized, the first two
\* filled with kInvalidNodeID, the first index set; both heaps are empty.
\* The other indices are not initialised; each is written, by
\* finish_move_set or finalize, before it is read, so 0 stands for them.
MSB_Init ==
  /\ msb_graph \in MSB_Inputs
  /\ _node_to_move_set = [u \in MSB_Nodes |-> kInvalidNodeID]
  /\ _move_sets = [pos \in MSB_Nodes |-> kInvalidNodeID]
  /\ _move_set_indices = [i \in 0..MSB_MaxNodes |-> 0]
  /\ _frontier = <<>>
  /\ _cur_pos = 0
  /\ _cur_move_set = 0
  /\ _cur_conns = <<>>
  /\ _cur_block = kInvalidBlockID
  /\ _cur_weight = 0
  /\ _best_prefix_pos = 0
  /\ _best_prefix_conn = 0
  /\ msb_u = 0
  /\ msb_pc = "build"
  /\ msb_kassert = {}
  /\ msb_log = <<>>

\* build: whether the loop calls grow_move_set for node u
MSB_IsSeed(u) ==
  LET bu == msb_graph.block[u]
  IN  /\ MSB_BlockWeight(bu) > msb_graph.max_block_weight[bu]
      /\ _node_to_move_set[u] = kInvalidNodeID

\* grow_move_set: the condition of the while loop
MSB_Growing ==
  DOMAIN _frontier # {} /\ _cur_weight < msb_graph.max_move_set_weight

\* build: a node that starts no move set
MSB_SkipNode ==
  /\ msb_pc = "build"
  /\ msb_u \in MSB_Nodes
  /\ ~MSB_IsSeed(msb_u)
  /\ msb_u' = msb_u + 1
  /\ UNCHANGED <<msb_graph, _node_to_move_set, _move_sets, _move_set_indices,
                 _frontier, _cur_pos, _cur_move_set, _cur_conns, _cur_block,
                 _cur_weight, _best_prefix_pos, _best_prefix_conn, msb_pc,
                 msb_kassert, msb_log>>

\* build, grow_move_set(seed, max_weight) up to its loop: the seed is pushed
\* with key 0 (over its entry, should the heap hold it already)
MSB_GrowMoveSet ==
  /\ msb_pc = "build"
  /\ msb_u \in MSB_Nodes
  /\ MSB_IsSeed(msb_u)
  /\ _frontier' = [v \in DOMAIN _frontier \cup {msb_u} |->
                     IF v = msb_u THEN 0 ELSE _frontier[v]]
  /\ msb_pc' = "grow"
  /\ msb_log' = Append(msb_log, [seed |-> msb_u, weight_before |-> _cur_weight,
                                 weight_after |-> _cur_weight, nodes |-> {},
                                 frontier_empty |-> FALSE, finished |-> FALSE])
  /\ UNCHANGED <<msb_graph, _node_to_move_set, _move_sets, _move_set_indices,
                 _cur_pos, _cur_move_set, _cur_conns, _cur_block, _cur_weight,
                 _best_prefix_pos, _best_prefix_conn, msb_u, msb_kassert>>

\* grow_move_set, one round of the loop: the node on top of the frontier is
\* popped and added to the move set (add_to_move_set), its neighbours in its
\* block are pushed or raised.  peek_key is what _cur_conns.peek_key()
\* returns when that heap has no elements.
MSB_AddToMoveSet(u, peek_key) ==
  /\ msb_pc = "grow"
  /\ MSB_Growing
  /\ u \in DOMAIN _frontier
  /\ \A v \in DOMAIN _frontier : _frontier[v] <= _frontier[u]
  /\ IF _cur_pos >= MSB_MaxNodes
       THEN \* _move_sets[_cur_pos] is past the end of the array
            /\ msb_pc' = "undefined"
            /\ UNCHANGED <<_node_to_move_set, _move_sets, _frontier, _cur_pos,
                           _cur_conns, _cur_block, _cur_weight,
                           _best_prefix_pos, _best_prefix_conn, msb_kassert>>
       ELSE LET bu == msb_graph.block[u]
                cur_block == IF _cur_block = kInvalidBlockID THEN bu ELSE _cur_block
                node_to_move_set == [_node_to_move_set EXCEPT ![u] = _cur_move_set]
                cur_pos == _cur_pos + 1
                conn(b) == Cardinality({v \in MSB_Neighbors(u) :
                                          /\ node_to_move_set[v] # _cur_move_set
                                          /\ msb_graph.block[v] = b
                                          /\ b # cur_block})
                cur_conns == [b \in DOMAIN _cur_conns |-> _cur_conns[b] - conn(b)]
                key == IF DOMAIN cur_conns = {}
                         THEN peek_key
                         ELSE CHOOSE k \in {cur_conns[b] : b \in DOMAIN cur_conns} :
                                \A b \in DOMAIN cur_conns : cur_conns[b] <= k
                popped == [v \in DOMAIN _frontier \ {u} |-> _frontier[v]]
                pushed == {v \in MSB_Neighbors(u) : msb_graph.block[v] = bu}
            IN  /\ msb_kassert' =
                     IF _cur_block = kInvalidBlockID \/ _cur_block = bu
                       THEN msb_kassert
                       ELSE msb_kassert \cup {"add_to_move_set"}
                /\ _cur_block' = cur_block
                /\ _cur_weight' = _cur_weight + msb_graph.node_weight[u]
                /\ _node_to_move_set' = node_to_move_set
                /\ _move_sets' = [_move_sets EXCEPT ![_cur_pos] = u]
                /\ _cur_pos' = cur_pos
                /\ _cur_conns' = cur_conns
                /\ IF key >= _best_prefix_conn
                     THEN _best_prefix_conn' = key /\ _best_prefix_pos' = cur_pos
                     ELSE UNCHANGED <<_best_prefix_conn, _best_prefix_pos>>
                /\ _frontier' = [v \in DOMAIN popped \cup pushed |->
                                   IF v \in pushed
                                     THEN (IF v \in DOMAIN popped THEN popped[v] ELSE 0) + 1
                                     ELSE popped[v]]
                /\ msb_pc' = "grow"
  /\ UNCHANGED <<msb_graph, _move_set_indices, _cur_move_set, msb_u, msb_log>>

\* grow_move_set after its loop: finish_move_set() and the closing assertion
MSB_FinishMoveSet ==
  /\ msb_pc = "grow"
  /\ ~MSB_Growing
  /\ LET cut == {_move_sets[pos] : pos \in _best_prefix_pos..(_cur_pos - 1)}
         node_to_move_set == [v \in MSB_Nodes |->
                                IF v \in cut THEN kInvalidNodeID
                                             ELSE _node_to_move_set[v]]
         open == msb_log[Len(msb_log)]
     IN  /\ _node_to_move_set' = node_to_move_set
         /\ _move_set_indices' =
              [_move_set_indices EXCEPT ![_cur_move_set + 1] =
                 _move_set_indices[_cur_move_set] + _best_prefix_pos]
         /\ msb_kassert' =
              IF node_to_move_set[msb_u] # kInvalidBlockID
                THEN msb_kassert
                ELSE msb_kassert \cup {"grow_move_set"}
         /\ msb_log' =
              [msb_log EXCEPT ![Len(msb_log)] =
                 [open EXCEPT !.weight_after = _cur_weight,
                              !.nodes = {v \in MSB_Nodes :
                                           node_to_move_set[v] = _cur_move_set},
                              !.frontier_empty = (DOMAIN _frontier = {}),
                              !.finished = TRUE]]
  /\ _cur_move_set' = _cur_move_set + 1
  /\ _cur_conns' = [b \in MSB_Blocks |-> 0]
  /\ _cur_block' = kInvalidBlockID
  /\ _cur_pos' = _best_prefix_pos
  /\ msb_u' = msb_u + 1
  /\ msb_pc' = "build"
  /\ UNCHANGED <<msb_graph, _move_sets, _frontier, _cur_weight,
                 _best_prefix_pos, _best_prefix_conn>>

\* A heap is used against its contract and stops the program: peek_key() of
\* _cur_conns, which has no elements before the first finish_move_set(), or
\* push() of a seed the frontier still holds.
MSB_AbortInHeap ==
  /\ \/ msb_pc = "grow" /\ MSB_Growing /\ DOMAIN _cur_conns = {}
     \/ /\ msb_pc = "build" /\ msb_u \in MSB_Nodes /\ MSB_IsSeed(msb_u)
        /\ msb_u \in DOMAIN _frontier
  /\ msb_pc' = "aborted"
  /\ UNCHANGED <<msb_graph, _node_to_move_set, _move_sets, _move_set_indices,
                 _frontier, _cur_pos, _cur_move_set, _cur_conns, _cur_block,
                 _cur_weight, _best_prefix_pos, _best_prefix_conn, msb_u,
                 msb_kassert, msb_log>>

\* finalize(): the index array is cut after the last set, its last entry
\* overwritten with n
MSB_Finalize ==
  /\ msb_pc = "build"
  /\ msb_u = MSB_MaxNodes
  /\ _move_set_indices' = [i \in 0.._cur_move_set |->
                             IF i = _cur_move_set THEN MSB_MaxNodes
                                                  ELSE _move_set_indices[i]]
  /\ msb_pc' = "finalized"
  /\ UNCHANGED <<msb_graph, _node_to_move_set, _move_sets, _frontier, _cur_pos,
                 _cur_move_set, _cur_conns, _cur_block, _cur_weight,
                 _best_prefix_pos, _best_prefix_conn, msb_u, msb_kassert,
                 msb_log>>

InitMSB ==
  /\ MSB_Init
  /\ CCV_Idle /\ GC_Idle /\ JET_Idle /\ CO_Idle /\ REF_Idle /\ LP_Idle /\ FRA_Idle /\ CG_Idle /\ LPR_Idle /\ BLD_Idle /\ POOL_Idle /\ SEQ_Idle /\ FA_Idle

NextMSB ==
  \/ MSB_SkipNode /\ UNCHANGED notMsbVars
  \/ MSB_GrowMoveSet /\ UNCHANGED notMsbVars
  \/ \E u \in MSB_Nodes, peek_key \in MSB_GarbageKeys :
       MSB_AddToMoveSet(u, peek_key) /\ UNCHANGED notMsbVars
  \/ MSB_FinishMoveSet /\ UNCHANGED notMsbVars
  \/ MSB_AbortInHeap /\ UNCHANGED notMsbVars
  \/ MSB_Finalize /\ UNCHANGED notMsbVars

SpecMSB == InitMSB /\ [][NextMSB]_vars

\* The members MoveSets stores for a set: the slots of _move_sets between
\* the set's index and the next (MoveSets::size), as far as they hold nodes.
MSB_Members(set) ==
  {_move_sets[pos] : pos \in {p \in MSB_Nodes : /\ _move_set_indices[set] <= p
                                                /\ p < _move_set_indices[set + 1]}}
    \ {kInvalidNodeID}

\* While the sets are grown: the assertion of add_to_move_set holds, and the
\* nodes _node_to_move_set gives one set are in one block.
MSB_GrownInOneBlock ==
  /\ "add_to_move_set" \notin msb_kassert
  /\ \A u \in DOMAIN _node_to_move_set, v \in DOMAIN _node_to_move_set :
       (_node_to_move_set[u] = _node_to_move_set[v]
          /\ _node_to_move_set[u] # kInvalidNodeID)
         => msb_graph.block[u] = msb_graph.block[v]

\* C22: every move set build_greedy_move_sets produces has its nodes in one
\* block, also when several sets are grown one after another, and the
\* assertion in add_to_move_set never fails.
C22_MoveSetsInOneBlock ==
  /\ MSB_GrownInOneBlock
  /\ msb_pc = "finalized" =>
       \A set \in 0..(_cur_move_set - 1) :
         \A u \in MSB_Members(set), v \in MSB_Members(set) :
           msb_graph.block[u] = msb_graph.block[v]

\* C23: the node weight of every move set is at most max_move_set_weight,
\* and the limit is applied to each set on its own: a set stops growing
\* while the frontier has nodes only when the weight added to this set has
\* reached the limit.
C23_WeightLimitPerSet ==
  \A s \in 1..Len(msb_log) :
    msb_log[s].finished =>
      /\ SumTo([u \in MSB_Nodes |-> IF u \in msb_log[s].nodes
                                      THEN msb_graph.node_weight[u] ELSE 0],
               MSB_MaxNodes) <= msb_graph.max_move_set_weight
      /\ ~msb_log[s].frontier_empty =>
           msb_log[s].weight_after - msb_log[s].weight_before
             >= msb_graph.max_move_set_weight

(***************************************************************************)
(* LabelPropagationRefiner::refine                                         *)
(* (parallel_label_propagation_refiner.h)                                  *)
(***************************************************************************)
LPR_MaxIterations == 2   \* largest num_iterations; rounds run when it is 0
LPR_MaxNodes == 2        \* nodes one randomized_iteration() goes through

\* std::numeric_limits<std::size_t>::max(), as far as a bounded run can tell
kInfiniteIterations == IntMax

\* refine(): max_iterations
LPR_MaxIterationsOf(num_iterations) ==
  IF num_iterations = 0 THEN kInfiniteIterations ELSE num_iterations

\* refine(p_graph, p_ctx) up to its loop
LPR_Init ==
  /\ LP_Init
  /\ lpr_num_iterations \in 0..LPR_MaxIterations
  /\ lpr_iteration = 0
  /\ lpr_nodes_left = LPR_MaxNodes
  /\ lpr_num_moved_nodes = 0
  /\ lpr_cut_change = 0
  /\ lpr_return = "none"

\* randomized_iteration(): the next node is taken up
LPR_SelectNode ==
  /\ lpr_return = "none"
  /\ lpr_nodes_left > 0
  /\ LP_SelectNode
  /\ lpr_nodes_left' = lpr_nodes_left - 1
  /\ UNCHANGED <<lpr_num_iterations, lpr_iteration, lpr_num_moved_nodes,
                 lpr_cut_change, lpr_return>>

\* randomized_iteration(): a rated block is offered to accept_cluster
LPR_TryCluster ==
  /\ lpr_return = "none"
  /\ LP_TryCluster
  /\ UNCHANGED lprVars

\* randomized_iteration(): the node goes to its best block or stays; a move
\* is counted and lowers the cut by the gain of the block
LPR_MoveNode ==
  /\ lpr_return = "none"
  /\ LP_MoveNode
  /\ IF lp_block_weight' # lp_block_weight
       THEN /\ lpr_num_moved_nodes' = lpr_num_moved_nodes + 1
            /\ lpr_cut_change' = lpr_cut_change - lp_state.best_gain
       ELSE UNCHANGED <<lpr_num_moved_nodes, lpr_cut_change>>
  /\ UNCHANGED <<lpr_num_iterations, lpr_iteration, lpr_nodes_left, lpr_return>>

\* refine(): randomized_iteration() has returned num_moved_nodes; the rest
\* of the loop body, the loop condition and the return after the loop
LPR_EndIteration ==
  /\ lpr_return = "none"
  /\ lpr_nodes_left = 0
  /\ lp_state = <<>>
  /\ IF lpr_num_moved_nodes = 0
       THEN /\ lpr_return' = "false"
            /\ UNCHANGED <<lpr_iteration, lpr_nodes_left, lpr_num_moved_nodes>>
       ELSE IF lpr_iteration + 1 < LPR_MaxIterationsOf(lpr_num_iterations)
              THEN /\ lpr_iteration < LPR_MaxIterations
                   /\ lpr_iteration' = lpr_iteration + 1
                   /\ lpr_nodes_left' = LPR_MaxNodes
                   /\ lpr_num_moved_nodes' = 0
                   /\ UNCHANGED lpr_return
              ELSE /\ lpr_return' = "true"
                   /\ UNCHANGED <<lpr_iteration, lpr_nodes_left,
                                  lpr_num_moved_nodes>>
  /\ UNCHANGED <<lpr_num_iterations, lpr_cut_change, lpVars>>

InitLPRefine ==
  /\ LPR_Init
  /\ CCV_Idle /\ GC_Idle /\ JET_Idle /\ CO_Idle /\ REF_Idle /\ FRA_Idle /\ CG_Idle /\ MSB_Idle /\ BLD_Idle /\ POOL_Idle /\ SEQ_Idle /\ FA_Idle

NextLPRefine ==
  \/ LPR_SelectNode /\ UNCHANGED notLpLprVars
  \/ LPR_TryCluster /\ UNCHANGED notLpLprVars
  \/ LPR_MoveNode /\ UNCHANGED notLpLprVars
  \/ LPR_EndIteration /\ UNCHANGED notLpLprVars

SpecLPRefine == InitLPRefine /\ [][NextLPRefine]_vars

\* C21: refine() returns true if and only if the edge cut is strictly lower
\* when it returns than when it was called, whatever num_iterations is and
\* whatever the iterations did.
C21_TrueIffCutDecreased ==
  lpr_return # "none" => (lpr_return = "true" <=> lpr_cut_change < 0)

\* C31: ghost label coherence.  Whenever no PE is between the start of its
\* move_locked_nodes and the end of synchronize_ghost_node_labels, every
\* ghost copy of a node has the block the owning PE has the node in: this
\* holds at the start of a pass and again after the labels of the pass are
\* synchronized, whatever nodes the PEs moved.
C31_GhostLabelCoherence ==
  (\A pe \in JET_PEs : jet_pc[pe] \notin {"move_locked_nodes", "synchronize_labels"})
    => \A me \in JET_PEs : \A u \in JET_GhostNodes(me) :
         jet_block[me][u] = JET_OwnerBlock(JET_LocalToGlobal(me, u))

\* C31 witness: the labels of a pass have just been synchronized, and in
\* that pass a PE moved a node to another block that a second PE has a
\* ghost copy of.
C31_Witness ==
  /\ \A pe \in JET_PEs : jet_pc[pe] = "apply_block_weight_deltas"
  /\ \E pe \in JET_PEs, me \in JET_PEs :
       \E their_lnode \in JET_OwnedNodes(pe), u \in JET_GhostNodes(me) :
         /\ me # pe
         /\ _locked[pe][their_lnode] # 0
         /\ JET_LocalToGlobal(me, u) = JET_LocalToGlobal(pe, their_lnode)
         /\ jet_block[me][u] = _gains_and_targets[pe][their_lnode][2]
         /\ jet_block[me][u] = jet_block[pe][their_lnode]

\* C32: level() never exceeds coarsening.max_global_clustering_levels, and
\* a call of coarsen_once at that level returns the coarsest graph and
\* leaves the hierarchy, both mapping stacks and the convergence flag as
\* they are.
C32_LevelCap ==
  [][/\ CO_Level(_graph_hierarchy') <= co_max_global_levels'
     /\ (/\ co_last'.op = "coarsen_once"
         /\ CO_Level(_graph_hierarchy) >= co_max_global_levels)
          => /\ co_last'.ret = CO_Coarsest(_graph_hierarchy).id
             /\ UNCHANGED <<_graph_hierarchy, _local_mapping_hierarchy,
                            _global_mapping_hierarchy,
                            _local_clustering_converged>>]_vars

\* C32 witness: coarsen_once has been called with a graph in the hierarchy
\* that put level() at the maximum, before local clustering had converged.
C32_Witness ==
  /\ co_last.op = "coarsen_once"
  /\ co_last.steps = <<>>
  /\ co_last.before.hierarchy = _graph_hierarchy
  /\ CO_Level(_graph_hierarchy) = co_max_global_levels
  /\ co_max_global_levels >= 1
  /\ ~_local_clustering_converged

\* C35: the hierarchy holds as many graphs as there are local plus global
\* mappings, the levels built with a local mapping are exactly the lowest
\* ones (no local level above a global level, and none is added once local
\* clustering is marked converged), and uncoarsen_once pops the mapping of
\* the kind that built the coarsest graph, together with that graph.
C35_MappingStacksMatchHierarchy ==
  /\ Len(_graph_hierarchy) =
       Len(_local_mapping_hierarchy) + Len(_global_mapping_hierarchy)
  /\ \A i \in 1..Len(_graph_hierarchy) :
       _graph_hierarchy[i].built =
         IF i <= Len(_local_mapping_hierarchy) THEN "local" ELSE "global"
  /\ co_last.op = "coarsen_once"
       => \A j \in 1..Len(co_last.steps) :
            co_last.steps[j].kind = "local" => co_last.before.global = <<>>
  /\ co_last.op = "uncoarsen_once"
       => LET before == co_last.before
              top == before.hierarchy[Len(before.hierarchy)]
          IN  /\ _graph_hierarchy = SubSeq(before.hierarchy, 1, Len(before.hierarchy) - 1)
              /\ IF top.built = "global"
                 THEN /\ _global_mapping_hierarchy =
                           SubSeq(before.global, 1, Len(before.global) - 1)
                      /\ _local_mapping_hierarchy = before.local
                 ELSE /\ _local_mapping_hierarchy =
                           SubSeq(before.local, 1, Len(before.local) - 1)
                      /\ _global_mapping_hierarchy = before.global

\* C35 witness: a level built with a local mapping lies under a level built
\* with a global mapping, and uncoarsen_once has just popped a second
\* global level, so that both stacks are still non-empty.
C35_Witness ==
  /\ co_last.op = "uncoarsen_once"
  /\ Len(co_last.before.hierarchy) >= 2
  /\ _local_mapping_hierarchy # <<>>
  /\ co_last.before.global # <<>>
  /\ co_last.before.local # <<>>

\* C33: a candidate block with a gain strictly higher than the best so far
\* is accepted for node u whenever its weight plus the weight of u is at
\* most its maximum block weight, the case of equality included.
C33_AcceptsUpToCap ==
  (/\ lp_accepted # "none"
   /\ lp_state.current_cluster_weight + lp_state.u_weight
        <= LP_MaxClusterWeight(lp_state.current_cluster)
   /\ \/ lp_accepted = "true"
      \/ lp_state.current_gain > lp_state.best_gain)
    => lp_accepted = "true"

\* C33, for a candidate that stays strictly below its maximum: such a
\* candidate with a strictly higher gain is always accepted.
C33_AcceptsBelowCap ==
  (/\ lp_accepted = "false"
   /\ lp_state.current_cluster_weight + lp_state.u_weight
        < LP_MaxClusterWeight(lp_state.current_cluster))
    => lp_state.current_gain <= lp_state.best_gain

MSB_Slots(set) ==
  {pos \in DOMAIN _move_sets : /\ _move_set_indices[set] <= pos
                               /\ pos < _move_set_indices[set + 1]}

\* C36: build_greedy_move_sets returns a well-formed MoveSets for every
\* input, one without an overloaded block included: the index array starts
\* at 0, is non-decreasing and ends at the size of _move_sets (the
\* assertions of the constructor), the sets are pairwise disjoint, no slot
\* of a set holds kInvalidNodeID, and _node_to_move_set[u] = s exactly when
\* u is stored in a slot of set s.
C36_WellFormedMoveSets ==
  msb_pc = "finalized" =>
    /\ _move_set_indices[0] = 0
    /\ _move_set_indices[_cur_move_set] = Cardinality(DOMAIN _move_sets)
    /\ \A set \in 0..(_cur_move_set - 1) :
         _move_set_indices[set] <= _move_set_indices[set + 1]
    /\ \A set \in 0..(_cur_move_set - 1) :
         \A pos \in MSB_Slots(set) : _move_sets[pos] # kInvalidNodeID
    /\ \A s \in 0..(_cur_move_set - 1), t \in 0..(_cur_move_set - 1) :
         s # t => {_move_sets[pos] : pos \in MSB_Slots(s)}
                    \cap {_move_sets[pos] : pos \in MSB_Slots(t)} = {}
    /\ \A u \in DOMAIN _node_to_move_set, s \in 0..(_cur_move_set - 1) :
         _node_to_move_set[u] = s
           <=> u \in {_move_sets[pos] : pos \in MSB_Slots(s)}

(***************************************************************************)
(* graph::Builder: ghost nodes of one PE (distributed_graph_builder.h)     *)
(***************************************************************************)
BLD_MaxGlobalN == 3
BLD_MaxPEs == 3
BLD_MaxEdges == 3

\* The node distributions initialize() accepts for global_n nodes: front()
\* is 0, back() is global_n; the ranges of the PEs follow one another, and
\* a PE may own no node.
BLD_Distributions ==
  {d \in UNION {[1..(size + 1) -> 0..BLD_MaxGlobalN] : size \in 1..BLD_MaxPEs} :
     /\ d[1] = 0
     /\ d[Len(d)] = BLD_MaxGlobalN
     /\ \A i \in 1..(Len(d) - 1) : d[i] <= d[i + 1]}

\* _offset_n and _local_n as initialize() sets them
BLD_OffsetN == _node_distribution[bld_rank + 1]
BLD_LocalN == _node_distribution[bld_rank + 2] - _node_distribution[bld_rank + 1]

\* is_local_node(global_u)
BLD_IsLocalNode(global_u) ==
  BLD_OffsetN <= global_u /\ global_u < BLD_OffsetN + BLD_LocalN

\* std::upper_bound(first, first + count, value) on _node_distribution, with
\* positions counted from 0: the bisection of the standard library.
RECURSIVE BLD_UpperBound(_, _, _)
BLD_UpperBound(first, count, value) ==
  IF count <= 0 THEN first
  ELSE LET step == count \div 2
           it == first + step
       IN  IF ~(value < _node_distribution[it + 1])
           THEN BLD_UpperBound(it + 1, count - (step + 1), value)
           ELSE BLD_UpperBound(first, step, value)

\* find_ghost_owner(global_u): upper_bound over begin() + 1 .. end(), and
\* the distance of the result to begin(), minus 1
BLD_FindGhostOwner(global_u) ==
  BLD_UpperBound(1, Len(_node_distribution) - 1, global_u) - 1

\* initialize(global_n, global_m, rank, node_distribution) on a new builder
BLD_Initialize ==
  /\ _node_distribution \in BLD_Distributions
  /\ bld_rank \in 0..(Len(_node_distribution) - 2)
  /\ _nodes = <<>>
  /\ bld_node_weights = <<>>
  /\ _edges = <<>>
  /\ _ghost_owner = <<>>
  /\ bld_ghost_to_global = <<>>
  /\ _global_to_ghost = <<>>
  /\ bld_targets = <<>>

\* create_node(weight)
BLD_CreateNode(weight) ==
  /\ _node_distribution # <<>>
  /\ Len(_nodes) < BLD_LocalN
  /\ _nodes' = Append(_nodes, Len(_edges))
  /\ bld_node_weights' = Append(bld_node_weights, weight)
  /\ UNCHANGED <<_node_distribution, bld_rank, _edges, _ghost_owner,
                 bld_ghost_to_global, _global_to_ghost, bld_targets>>

\* (variant: create_ghost_node without the test for a known global id)
BLD_CreateGhostNodeAlways(global_u) ==
  [ghost_to_global |-> Append(bld_ghost_to_global, global_u),
   global_to_ghost |->
     [g \in DOMAIN _global_to_ghost \cup {global_u} |->
        IF g = global_u THEN BLD_LocalN + Len(bld_ghost_to_global)
        ELSE _global_to_ghost[g]],
   ghost_owner |-> Append(_ghost_owner, BLD_FindGhostOwner(global_u)),
   ret |-> BLD_LocalN + Len(bld_ghost_to_global)]

\* create_ghost_node(global_u): the three containers after the call and the
\* id that is returned
BLD_CreateGhostNode(global_u) ==
  IF global_u \notin DOMAIN _global_to_ghost
  THEN [ghost_to_global |-> Append(bld_ghost_to_global, global_u),
        global_to_ghost |->
          [g \in DOMAIN _global_to_ghost \cup {global_u} |->
             IF g = global_u THEN BLD_LocalN + Len(bld_ghost_to_global)
             ELSE _global_to_ghost[g]],
        ghost_owner |-> Append(_ghost_owner, BLD_FindGhostOwner(global_u)),
        ret |-> BLD_LocalN + Len(bld_ghost_to_global)]
  ELSE [ghost_to_global |-> bld_ghost_to_global,
        global_to_ghost |-> _global_to_ghost,
        ghost_owner |-> _ghost_owner,
        ret |-> _global_to_ghost[global_u]]

\* create_edge(weight, global_v)
BLD_CreateEdge(global_v) ==
  /\ _node_distribution # <<>>
  /\ Len(_edges) < BLD_MaxEdges
  /\ IF BLD_IsLocalNode(global_v)
     THEN /\ _edges' = Append(_edges, global_v - BLD_OffsetN)
          /\ UNCHANGED <<bld_ghost_to_global, _global_to_ghost, _ghost_owner>>
     ELSE LET created == BLD_CreateGhostNode(global_v)
          IN  /\ _edges' = Append(_edges, created.ret)
              /\ bld_ghost_to_global' = created.ghost_to_global
              /\ _global_to_ghost' = created.global_to_ghost
              /\ _ghost_owner' = created.ghost_owner
  /\ bld_targets' = Append(bld_targets, global_v)
  /\ UNCHANGED <<_node_distribution, bld_rank, _nodes, bld_node_weights>>

InitBuilder ==
  /\ BLD_Initialize
  /\ CCV_Idle /\ GC_Idle /\ JET_Idle /\ CO_Idle /\ REF_Idle /\ LP_Idle /\ FRA_Idle /\ CG_Idle /\ MSB_Idle /\ LPR_Idle /\ POOL_Idle /\ SEQ_Idle /\ FA_Idle

NextBuilder ==
  \/ BLD_CreateNode(1) /\ UNCHANGED notBldVars
  \/ \E global_v \in 0..(BLD_MaxGlobalN - 1) :
       BLD_CreateEdge(global_v) /\ UNCHANGED notBldVars

SpecBuilder == InitBuilder /\ [][NextBuilder]_vars

\* The non-local targets of the create_edge calls so far, each once, in the
\* order of their first appearance.
BLD_FirstAppearances ==
  LET first == {i \in 1..Len(bld_targets) :
                  /\ ~BLD_IsLocalNode(bld_targets[i])
                  /\ \A j \in 1..(i - 1) : bld_targets[j] # bld_targets[i]}
  IN  [k \in 1..Cardinality(first) |->
         bld_targets[CHOOSE i \in first :
                       Cardinality({j \in first : j < i}) = k - 1]]

\* C37: after any sequence of create_node and create_edge calls, every
\* distinct non-local target has exactly one ghost id, the ghost ids are
\* local_n, local_n + 1, ... in the order of first appearance,
\* ghost_to_global and global_to_ghost are inverse to each other, a local
\* target is stored as its global id minus the local offset, and the owner
\* of a ghost with global id g is the one PE p with node_distribution[p] <=
\* g < node_distribution[p + 1], which is not the local rank.
C37_GhostIds ==
  _node_distribution # <<>> =>
    /\ bld_ghost_to_global = BLD_FirstAppearances
    /\ DOMAIN _global_to_ghost =
         {bld_ghost_to_global[i] : i \in 1..Len(bld_ghost_to_global)}
    /\ \A i \in 1..Len(bld_ghost_to_global) :
         _global_to_ghost[bld_ghost_to_global[i]] = BLD_LocalN + (i - 1)
    /\ Len(_edges) = Len(bld_targets)
    /\ \A k \in 1..Len(bld_targets) :
         IF BLD_IsLocalNode(bld_targets[k])
         THEN _edges[k] = bld_targets[k] - BLD_OffsetN
         ELSE /\ _edges[k] >= BLD_LocalN
              /\ bld_ghost_to_global[_edges[k] - BLD_LocalN + 1] = bld_targets[k]
    /\ Len(_ghost_owner) = Len(bld_ghost_to_global)
    /\ \A i \in 1..Len(_ghost_owner) :
         /\ _ghost_owner[i] # bld_rank
         /\ \A p \in 0..(Len(_node_distribution) - 2) :
              (/\ _node_distribution[p + 1] <= bld_ghost_to_global[i]
               /\ bld_ghost_to_global[i] < _node_distribution[p + 2])
                <=> p = _ghost_owner[i]

\* C37 witness: a non-local target was used twice and another one after it,
\* on a PE between two others of which one owns no node; the two ghosts
\* have distinct owners.
C37_Witness ==
  /\ Len(bld_targets) = 3
  /\ bld_targets[1] = bld_targets[2]
  /\ Len(bld_ghost_to_global) = 2
  /\ _ghost_owner[1] # _ghost_owner[2]
  /\ \E p \in 0..(Len(_node_distribution) - 2) :
       _node_distribution[p + 1] = _node_distribution[p + 2]

(***************************************************************************)
(* BasePoolAllocator: creation of the static memory pool                   *)
(* (parallel_label_propagation_refiner.h)                                  *)
(***************************************************************************)
POOL_Threads == 2
POOL_MaxCalls == 3
POOL_MaxSize == 2

\* default_pool_size (GROWT_MEMPOOL_SIZE, 2 GiB), scaled to a value that is
\* at least 2 and above the sizes the calls pass
default_pool_size == POOL_MaxSize + 2

POOL_ThreadIds == 1..POOL_Threads

\* Where a thread goes when init(n) returns: into the wait loop of the
\* constructor that called it, or out of the call.
POOL_AfterInit(t) == IF pool_call[t].kind = "ctor" THEN "wait" ELSE "idle"

POOL_Init ==
  /\ initialized = 0 /\ pool_buffer = 0 /\ pool = 0
  /\ pool_pc = [t \in POOL_ThreadIds |-> "idle"]
  /\ pool_call = [t \in POOL_ThreadIds |-> [kind |-> "none", n |-> 0]]
  /\ pool_ncalls = 0
  /\ pool_allocs = 0 /\ pool_news = 0 /\ pool_ctor_returns = 0
  /\ pool_bad_return = FALSE /\ pool_waited = FALSE

\* A thread calls BasePoolAllocator(n) or init(n).
POOL_Call(t, kind, n) ==
  /\ pool_pc[t] = "idle"
  /\ pool_ncalls < POOL_MaxCalls
  /\ pool_call' = [pool_call EXCEPT ![t] = [kind |-> kind, n |-> n]]
  /\ pool_pc' = [pool_pc EXCEPT ![t] = IF kind = "ctor" THEN "ctor_load"
                                                         ELSE "init_load"]
  /\ pool_ncalls' = pool_ncalls + 1
  /\ UNCHANGED <<initialized, pool_buffer, pool, pool_allocs, pool_news,
                 pool_ctor_returns, pool_bad_return, pool_waited>>

\* The constructor returns.
POOL_CtorReturn(t) ==
  /\ pool_pc' = [pool_pc EXCEPT ![t] = "idle"]
  /\ pool_ctor_returns' = pool_ctor_returns + 1
  /\ pool_bad_return' = (pool_bad_return \/ pool = 0 \/ initialized < 2)

\* BasePoolAllocator(n): temp = initialized.load(); if (temp >= 2) return;
\* else init(n) is entered.
POOL_CtorLoad(t) ==
  /\ pool_pc[t] = "ctor_load"
  /\ IF initialized >= 2
     THEN POOL_CtorReturn(t)
     ELSE /\ pool_pc' = [pool_pc EXCEPT ![t] = "init_load"]
          /\ UNCHANGED <<pool_ctor_returns, pool_bad_return>>
  /\ UNCHANGED <<initialized, pool_buffer, pool, pool_call, pool_ncalls,
                 pool_allocs, pool_news, pool_waited>>

\* init(n): if (initialized.load() == 0)
POOL_InitLoad(t) ==
  /\ pool_pc[t] = "init_load"
  /\ pool_pc' = [pool_pc EXCEPT ![t] =
                   IF initialized = 0 THEN "init_cas" ELSE POOL_AfterInit(t)]
  /\ pool_waited' = (pool_waited \/ (/\ initialized # 0
                                     /\ initialized < 2
                                     /\ pool_call[t].kind = "ctor"))
  /\ UNCHANGED <<initialized, pool_buffer, pool, pool_call, pool_ncalls,
                 pool_allocs, pool_news, pool_ctor_returns, pool_bad_return>>

\* (variant: a plain store of 1 in place of the compare-exchange)
POOL_InitStoreOne(t) ==
  /\ pool_pc[t] = "init_cas"
  /\ initialized' = 1
  /\ pool_pc' = [pool_pc EXCEPT ![t] = "init_alloc"]
  /\ UNCHANGED pool_waited
  /\ UNCHANGED <<pool_buffer, pool, pool_call, pool_ncalls, pool_allocs,
                 pool_news, pool_ctor_returns, pool_bad_return>>

\* init(n): initialized.compare_exchange_strong(temp, 1) with temp = 0
POOL_InitCas(t) ==
  /\ pool_pc[t] = "init_cas"
  /\ IF initialized = 0
     THEN /\ initialized' = 1
          /\ pool_pc' = [pool_pc EXCEPT ![t] = "init_alloc"]
          /\ UNCHANGED pool_waited
     ELSE /\ UNCHANGED initialized
          /\ pool_pc' = [pool_pc EXCEPT ![t] = POOL_AfterInit(t)]
          /\ pool_waited' = (pool_waited \/ (/\ initialized < 2
                                             /\ pool_call[t].kind = "ctor"))
  /\ UNCHANGED <<pool_buffer, pool, pool_call, pool_ncalls, pool_allocs,
                 pool_news, pool_ctor_returns, pool_bad_return>>

\* init(n): tempN = n ? n : default_pool_size
POOL_TempN(t) == IF pool_call[t].n # 0 THEN pool_call[t].n ELSE default_pool_size

\* init(n): pool_buffer = AS().alloc(tempN). Malloc::alloc returns the
\* buffer or throws std::bad_alloc, which leaves init and its caller.
POOL_InitAlloc(t, success) ==
  /\ pool_pc[t] = "init_alloc"
  /\ IF success
     THEN /\ pool_buffer' = pool_allocs + 1
          /\ pool_allocs' = pool_allocs + 1
          /\ pool_pc' = [pool_pc EXCEPT ![t] = "init_new"]
     ELSE /\ pool_pc' = [pool_pc EXCEPT ![t] = "thrown"]
          /\ UNCHANGED <<pool_buffer, pool_allocs>>
  /\ UNCHANGED <<initialized, pool, pool_call, pool_ncalls, pool_news,
                 pool_ctor_returns, pool_bad_return, pool_waited>>

\* init(n): if (pool_buffer) pool = new tbb::fixed_pool(pool_buffer, tempN)
POOL_InitNew(t) ==
  /\ pool_pc[t] = "init_new"
  /\ IF pool_buffer # 0
     THEN /\ pool' = pool_news + 1
          /\ pool_news' = pool_news + 1
          /\ pool_pc' = [pool_pc EXCEPT ![t] = "init_store"]
     ELSE /\ pool_pc' = [pool_pc EXCEPT ![t] = POOL_AfterInit(t)]
          /\ UNCHANGED <<pool, pool_news>>
  /\ UNCHANGED <<initialized, pool_buffer, pool_call, pool_ncalls, pool_allocs,
                 pool_ctor_returns, pool_bad_return, pool_waited>>

\* init(n): initialized.store(tempN); std::atexit(reset); init returns
POOL_InitStore(t) ==
  /\ pool_pc[t] = "init_store"
  /\ initialized' = POOL_TempN(t)
  /\ pool_pc' = [pool_pc EXCEPT ![t] = POOL_AfterInit(t)]
  /\ pool_waited' = (pool_waited \/ (/\ POOL_TempN(t) < 2
                                     /\ pool_call[t].kind = "ctor"))
  /\ UNCHANGED <<pool_buffer, pool, pool_call, pool_ncalls, pool_allocs,
                 pool_news, pool_ctor_returns, pool_bad_return>>

\* BasePoolAllocator(n): while (initialized.load() < 2) {}; a load that
\* finds less than 2 changes nothing.
POOL_CtorWait(t) ==
  /\ pool_pc[t] = "wait"
  /\ initialized >= 2
  /\ POOL_CtorReturn(t)
  /\ UNCHANGED <<initialized, pool_buffer, pool, pool_call, pool_ncalls,
                 pool_allocs, pool_news, pool_waited>>

InitPool ==
  /\ POOL_Init
  /\ CCV_Idle /\ GC_Idle /\ JET_Idle /\ CO_Idle /\ REF_Idle /\ LP_Idle /\ FRA_Idle /\ CG_Idle /\ MSB_Idle /\ LPR_Idle /\ BLD_Idle /\ SEQ_Idle /\ FA_Idle

NextPool ==
  \/ \E t \in POOL_ThreadIds, kind \in {"ctor", "init"}, n \in 0..POOL_MaxSize :
       POOL_Call(t, kind, n) /\ UNCHANGED notPoolVars
  \/ \E t \in POOL_ThreadIds : POOL_CtorLoad(t) /\ UNCHANGED notPoolVars
  \/ \E t \in POOL_ThreadIds : POOL_InitLoad(t) /\ UNCHANGED notPoolVars
  \/ \E t \in POOL_ThreadIds : POOL_InitCas(t) /\ UNCHANGED notPoolVars
  \/ \E t \in POOL_ThreadIds, success \in BOOLEAN :
       POOL_InitAlloc(t, success) /\ UNCHANGED notPoolVars
  \/ \E t \in POOL_ThreadIds : POOL_InitNew(t) /\ UNCHANGED notPoolVars
  \/ \E t \in POOL_ThreadIds : POOL_InitStore(t) /\ UNCHANGED notPoolVars
  \/ \E t \in POOL_ThreadIds : POOL_CtorWait(t) /\ UNCHANGED notPoolVars

SpecPool == InitPool /\ [][NextPool]_vars

\* C39: under every interleaving of constructor and init(n) calls the pool
\* is created exactly once (one buffer allocation, one fixed_pool), and no
\* constructor returns before pool is set and initialized is at least 2.
C39_PoolCreatedOnce ==
  /\ pool_allocs <= 1
  /\ pool_news <= 1
  /\ ~pool_bad_return
  /\ pool_ctor_returns > 0 =>
       /\ pool_allocs = 1 /\ pool_news = 1
       /\ pool # 0 /\ initialized >= 2
  /\ (pool_ncalls > 0 /\ \A t \in POOL_ThreadIds : pool_pc[t] = "idle") =>
       pool_allocs = 1 /\ pool_news = 1

\* C39 witness: two constructors ran at once; one of them found initialized
\* at 1 while the other thread created the pool, waited in its loop, and
\* both have returned.
C39_Witness ==
  /\ pool_waited
  /\ pool_ctor_returns >= 2
  /\ pool_ncalls = 2
  /\ pool_allocs = 1 /\ pool_news = 1

(***************************************************************************)
(* mpi::sequentially (mpi_helper.h)                                        *)
(***************************************************************************)
SEQ_MaxProcesses == 3

\* The communicators over a world of world_size processes: a non-empty
\* group of processes in the rank order the communicator gives them
\* (MPI_Comm_split orders the ranks by key), MPI_COMM_WORLD among them.
SEQ_Communicators(world_size) ==
  {c \in UNION {[1..k -> 0..(world_size - 1)] : k \in 1..world_size} :
     \A i \in DOMAIN c, j \in DOMAIN c : i # j => c[i] # c[j]}

SEQ_CommWorld(world_size) == [i \in 1..world_size |-> i - 1]

SEQ_Ranks == 0..(Len(seq_comm) - 1)

\* get_comm_info(comm): {size, rank} of the calling process in comm
SEQ_GetCommInfo(comm, world_rank) ==
  [size |-> Len(comm),
   rank |-> (CHOOSE i \in DOMAIN comm : comm[i] = world_rank) - 1]

\* const auto [size, rank] = get_comm_info(): the argument is left out, so
\* the default MPI_COMM_WORLD is asked
SEQ_SizeAndRank(r) ==
  SEQ_GetCommInfo(SEQ_CommWorld(seq_world_size), seq_comm[r + 1])

\* Every process of comm calls sequentially(lambda, comm).
SEQ_Init ==
  /\ seq_world_size \in 1..SEQ_MaxProcesses
  /\ seq_comm \in SEQ_Communicators(seq_world_size)
  /\ seq_p = [r \in SEQ_Ranks |-> 0]
  /\ seq_pc = [r \in SEQ_Ranks |-> "loop"]
  /\ seq_arrived = [r \in SEQ_Ranks |-> 0]
  /\ seq_runs = [r \in SEQ_Ranks |-> 0]
  /\ seq_finished = [r \in SEQ_Ranks |-> 0]

\* for (int p = 0; p < size; ++p) { if (p == rank) lambda ...; the process
\* with rank r in comm tests the loop condition and p == rank, and either
\* starts lambda, enters MPI_Barrier(comm), or leaves the loop.
SEQ_LoopTest(r) ==
  /\ seq_pc[r] = "loop"
  /\ LET info == SEQ_SizeAndRank(r)
     IN  IF seq_p[r] >= info.size
         THEN /\ seq_pc' = [seq_pc EXCEPT ![r] = "done"]
              /\ UNCHANGED <<seq_runs, seq_arrived>>
         ELSE IF seq_p[r] = info.rank
         THEN /\ seq_pc' = [seq_pc EXCEPT ![r] = "lambda"]
              /\ seq_runs' = [seq_runs EXCEPT ![r] = @ + 1]
              /\ UNCHANGED seq_arrived
         ELSE /\ seq_pc' = [seq_pc EXCEPT ![r] = "barrier"]
              /\ seq_arrived' = [seq_arrived EXCEPT ![r] = @ + 1]
              /\ UNCHANGED seq_runs
  /\ UNCHANGED <<seq_world_size, seq_comm, seq_p, seq_finished>>

\* lambda returns and the process enters MPI_Barrier(comm).
SEQ_LambdaReturns(r) ==
  /\ seq_pc[r] = "lambda"
  /\ seq_finished' = [seq_finished EXCEPT ![r] = @ + 1]
  /\ seq_pc' = [seq_pc EXCEPT ![r] = "barrier"]
  /\ seq_arrived' = [seq_arrived EXCEPT ![r] = @ + 1]
  /\ UNCHANGED <<seq_world_size, seq_comm, seq_p, seq_runs>>

\* MPI_Barrier(comm) returns once every process of comm has entered it;
\* ++p
SEQ_BarrierReturns(r) ==
  /\ seq_pc[r] = "barrier"
  /\ \A q \in SEQ_Ranks : seq_arrived[q] >= seq_arrived[r]
  /\ seq_p' = [seq_p EXCEPT ![r] = @ + 1]
  /\ seq_pc' = [seq_pc EXCEPT ![r] = "loop"]
  /\ UNCHANGED <<seq_world_size, seq_comm, seq_arrived, seq_runs, seq_finished>>

InitSequentially ==
  /\ SEQ_Init
  /\ CCV_Idle /\ GC_Idle /\ JET_Idle /\ CO_Idle /\ REF_Idle /\ LP_Idle /\ FRA_Idle /\ CG_Idle /\ MSB_Idle /\ LPR_Idle /\ BLD_Idle /\ POOL_Idle /\ FA_Idle

NextSequentially ==
  \/ \E r \in SEQ_Ranks : SEQ_LoopTest(r) /\ UNCHANGED notSeqVars
  \/ \E r \in SEQ_Ranks : SEQ_LambdaReturns(r) /\ UNCHANGED notSeqVars
  \/ \E r \in SEQ_Ranks : SEQ_BarrierReturns(r) /\ UNCHANGED notSeqVars

SpecSequentially == InitSequentially /\ [][NextSequentially]_vars

\* lambda runs at most once per process and exactly once on a process that
\* has left sequentially(), and never on two processes at a time.
SEQ_OnceAndOneAtATime ==
  /\ \A r \in SEQ_Ranks :
       /\ seq_runs[r] <= 1
       /\ seq_pc[r] = "done" => seq_runs[r] = 1 /\ seq_finished[r] = 1
  /\ Cardinality({r \in SEQ_Ranks : seq_pc[r] = "lambda"}) <= 1

\* The process of rank r in comm starts lambda only after the processes of
\* the ranks 0..r-1 of comm have finished it.
SEQ_InRankOrder ==
  \A r \in SEQ_Ranks :
    seq_runs[r] >= 1 => \A q \in 0..(r - 1) : seq_finished[q] >= 1

\* C38: sequentially(lambda, comm) runs lambda exactly once on every
\* process of comm, in increasing rank order and on one process at a time,
\* for every communicator passed as comm.
C38_SequentialInRankOrder == SEQ_OnceAndOneAtATime /\ SEQ_InRankOrder

\* C38, for comm = MPI_COMM_WORLD: the claim holds.
C38_HoldsOnCommWorld ==
  seq_comm = SEQ_CommWorld(seq_world_size) => C38_SequentialInRankOrder

(***************************************************************************)
(* FastResetArray (concurrent_fast_reset_array.h, lines 104 ff.)           *)
(***************************************************************************)
FA_Capacity == 2
FA_MaxValue == 2
FA_MaxUsedEntries == 3

\* Value(), the default value of an arithmetic Value
FA_Default == 0

FA_Positions == 0..(FA_Capacity - 1)

\* FastResetArray(capacity): _data(capacity) holds default values
FA_Init ==
  /\ fa_data = [pos \in FA_Positions |-> FA_Default]
  /\ fa_used_entries = <<>>
  /\ fa_query = <<>>

\* operator[](pos): pos is recorded if the entry holds the default value
FA_Subscript(pos) ==
  IF fa_data[pos] = FA_Default THEN Append(fa_used_entries, pos)
  ELSE fa_used_entries

\* set(pos, new_value): (*this)[pos] = new_value
FA_Set(pos, new_value) ==
  /\ fa_data # <<>>
  /\ Len(FA_Subscript(pos)) <= FA_MaxUsedEntries
  /\ fa_used_entries' = FA_Subscript(pos)
  /\ fa_data' = [fa_data EXCEPT ![pos] = new_value]
  /\ fa_query' = <<>>

\* exists(pos): return _data[pos] == Value()
FA_Exists(pos) ==
  /\ fa_data # <<>>
  /\ fa_query' = [pos |-> pos, ret |-> (fa_data[pos] = FA_Default)]
  /\ UNCHANGED <<fa_data, fa_used_entries>>

\* clear(): the recorded entries are reset and the record is emptied
FA_Clear ==
  /\ fa_data # <<>>
  /\ fa_data' = [pos \in FA_Positions |->
                   IF \E i \in 1..Len(fa_used_entries) : fa_used_entries[i] = pos
                   THEN FA_Default ELSE fa_data[pos]]
  /\ fa_used_entries' = <<>>
  /\ fa_query' = <<>>

InitFA ==
  /\ FA_Init
  /\ CCV_Idle /\ GC_Idle /\ JET_Idle /\ CO_Idle /\ REF_Idle /\ LP_Idle /\ FRA_Idle /\ CG_Idle /\ MSB_Idle /\ LPR_Idle /\ BLD_Idle /\ POOL_Idle /\ SEQ_Idle

NextFA ==
  \/ \E pos \in FA_Positions, new_value \in 0..FA_MaxValue :
       FA_Set(pos, new_value) /\ UNCHANGED notFaVars
  \/ \E pos \in FA_Positions : FA_Exists(pos) /\ UNCHANGED notFaVars
  \/ FA_Clear /\ UNCHANGED notFaVars

SpecFA == InitFA /\ [][NextFA]_vars

\* C40: exists(pos) returns true exactly when the entry at pos holds a
\* non-default value; after clear() it returns false for every position.
C40_ExistsIffNonDefault ==
  fa_query # <<>> =>
    /\ fa_query.ret <=> fa_data[fa_query.pos] # FA_Default
    /\ fa_used_entries = <<>> => ~fa_query.ret

\* C40, the other way round: exists(pos) returns true exactly when the
\* entry at pos holds the default value.
C40_ExistsIffDefault ==
  fa_query # <<>> => (fa_query.ret <=> fa_data[fa_query.pos] = FA_Default)

====
